---- MODULE Spec2Model ----
(***************************************************************************)
(* The tabular join-and-load pipeline of the payroll and budget import     *)
(* scripts: scripts/import_payroll.py, scripts/import_fy2025_payroll.py    *)
(* and scripts/import_budgets.py.                                          *)
(*                                                                         *)
(* Cell values are tagged variants.  A text is a sequence of one-character *)
(* strings, so that strip(), float() and str() are computed character by   *)
(* character.  A float is held exactly, in hundredths (100.50 is 10050);   *)
(* the cell domains carry at most two fractional digits.                   *)
(***************************************************************************)
EXTENDS Integers, Sequences, FiniteSets, TLC

VARIABLES
    roster,          \* rows of the HR INFO sheet below the header (raw cells)
    detail,          \* rows of the EARNINGS sheet below the header (raw cells)
    budget_rows,     \* rows of a budget CSV file (raw cells)
    pc,              \* position of the running script
    loader,          \* which script is running
    records,         \* the records list handed to the batch loop
    i,               \* offset of the next slice, the loop variable of range(0, len, BATCH_SIZE)
    total_inserted,  \* the loader's running succeeded count
    skipped,         \* the loader's second counter (failed rows, or rows not parsed)
    store,           \* the persisted tables
    attempted,       \* history: the slices handed to the store in this run, in order
    calls,           \* history: the store calls of this run, in order
    result,          \* what the run returned, or how it ended
    runs,            \* history: the runs that ended, oldest first
    files,           \* the input files of main(), one per configured year
    main,            \* main(): its script, loop position, totals and history
    raw_value,       \* a raw cell value handed to a field normalizer
    normalized,      \* the normalizer applied to raw_value, and what came of it
    report           \* what the inspection script found out about the HR INFO rows

\* the state of main() and of its input files
main_vars == <<files, main>>
\* the state of a field normalizer called on its own
norm_vars == <<raw_value, normalized>>

vars == <<roster, detail, budget_rows, pc, loader, records, i, total_inserted,
          skipped, store, attempted, calls, result, runs, main_vars, norm_vars, report>>

-----------------------------------------------------------------------------
(* Bounds of the model. *)

\* longest HR INFO sheet of the join specification
MaxRoster == 3
\* longest EARNINGS sheet of the join specification that is built from any
\* rows of EarningsRows (the sheets of MixedKeySheets have three rows)
MaxDetail == 2
\* longest input (HR rows, CSV rows) of the load specification
MaxLoadRows == 3
\* number of runs of a script the load specification follows
MaxRuns == 2
\* The scripts set BATCH_SIZE = 1000; the model keeps the loop and scales the
\* slice length down so that inputs of MaxLoadRows rows span several slices.
BATCH_SIZE == 2

-----------------------------------------------------------------------------
(* Cell values. *)

\* Python None, an empty cell
None == [tag |-> "null", s |-> <<>>, n |-> 0]
\* a str
Str(t) == [tag |-> "str", s |-> t, n |-> 0]
\* an int
Int_(k) == [tag |-> "int", s |-> <<>>, n |-> k]
\* a finite float, in hundredths
Flt(h) == [tag |-> "float", s |-> <<>>, n |-> h]
\* float('nan')
NaN == [tag |-> "nan", s |-> <<>>, n |-> 0]
\* float('inf')
Inf == [tag |-> "inf", s |-> <<>>, n |-> 0]
\* float('-inf')
NegInf == [tag |-> "inf", s |-> <<>>, n |-> -1]
\* a cell value of another type: the datetime 2020-01-02 00:00, s its str()
Other ==
    [tag |-> "other",
     s |-> <<"2", "0", "2", "0", "-", "0", "1", "-", "0", "2", " ",
             "0", "0", ":", "0", "0", ":", "0", "0">>,
     n |-> 0]
\* a bool, n its int(): pandas reads one in a column of the texts True and False
Bool(b) == [tag |-> "bool", s |-> <<>>, n |-> IF b THEN 1 ELSE 0]
\* an exception leaving the function (one the function does not catch)
Raised == [tag |-> "raise", s |-> <<>>, n |-> 0]

IsNone(v) == v.tag = "null"
IsRaised(v) == v.tag = "raise"

Digits == <<"0", "1", "2", "3", "4", "5", "6", "7", "8", "9">>
IsDigit(c) == \E d \in 1..10 : Digits[d] = c
DigitVal(c) == (CHOOSE d \in 1..10 : Digits[d] = c) - 1

UpperChars == <<"A", "B", "C", "D", "E", "F", "G", "H", "I", "J", "K", "L", "M", "N", "O", "P", "Q", "R", "S", "T", "U", "V", "W", "X", "Y", "Z">>
LowerChars == <<"a", "b", "c", "d", "e", "f", "g", "h", "i", "j", "k", "l", "m", "n", "o", "p", "q", "r", "s", "t", "u", "v", "w", "x", "y", "z">>
\* str.lower() and str.upper(), character by character
Lower(c) ==
    IF \E k \in 1..Len(UpperChars) : UpperChars[k] = c
    THEN LowerChars[CHOOSE k \in 1..Len(UpperChars) : UpperChars[k] = c] ELSE c
Upper(c) ==
    IF \E k \in 1..Len(LowerChars) : LowerChars[k] = c
    THEN UpperChars[CHOOSE k \in 1..Len(LowerChars) : LowerChars[k] = c] ELSE c
LowerText(t) == [k \in 1..Len(t) |-> Lower(t[k])]
UpperText(t) == [k \in 1..Len(t) |-> Upper(t[k])]

\* the whitespace of C's isspace: space, tab, line feed, vertical tab, form
\* feed, carriage return
AsciiWhitespace == {" ", "\t", "\n", "", "\f", "\r"}
\* the separators U+001C to U+001F
Separators == {"", "", "", ""}
\* the whitespace beyond ASCII: the next line U+0085, the no-break space
\* U+00A0 and the ogham space U+1680.  The spaces from U+2000 on (U+2000 to
\* U+200A, U+2028, U+2029, U+202F, U+205F, U+3000) are whitespace as well; no
\* string of this module can hold them.
NonAsciiWhitespace == {"", " ", " "}
\* the characters str.isspace() holds for, which str.strip() removes
Whitespace == AsciiWhitespace \cup Separators \cup NonAsciiWhitespace

\* leading and trailing characters of ws removed
RECURSIVE LStripOf(_, _)
LStripOf(t, ws) == IF t # <<>> /\ Head(t) \in ws THEN LStripOf(Tail(t), ws) ELSE t
RECURSIVE RStripOf(_, _)
RStripOf(t, ws) ==
    IF t # <<>> /\ t[Len(t)] \in ws
    THEN RStripOf(SubSeq(t, 1, Len(t) - 1), ws) ELSE t
\* str.strip(): leading and trailing whitespace removed
LStrip(t) == LStripOf(t, Whitespace)
RStrip(t) == RStripOf(t, Whitespace)
Strip(t) == RStrip(LStrip(t))
\* the text float() and int() parse: whitespace removed at both ends, where
\* the separators U+001C to U+001F do not count as whitespace
NumberWhitespace == AsciiWhitespace \cup NonAsciiWhitespace
NumberStrip(t) == RStripOf(LStripOf(t, NumberWhitespace), NumberWhitespace)

\* str.replace(',', '')
RECURSIVE RemoveCommas(_)
RemoveCommas(t) ==
    IF t = <<>> THEN <<>>
    ELSE IF Head(t) = "," THEN RemoveCommas(Tail(t))
    ELSE <<Head(t)>> \o RemoveCommas(Tail(t))

\* str(k) of a non-negative int
RECURSIVE NatToStr(_)
NatToStr(k) ==
    IF k < 10 THEN <<Digits[k + 1]>>
    ELSE NatToStr(k \div 10) \o <<Digits[(k % 10) + 1]>>
\* str(k) of an int
IntToStr(k) == IF k < 0 THEN <<"-">> \o NatToStr(-k) ELSE NatToStr(k)
\* str(x) of a finite float: the shortest repr, always with a fractional part
FloatToStr(h) ==
    LET a == IF h < 0 THEN -h ELSE h
        f == a % 100
        frac == IF f % 10 = 0 THEN <<Digits[(f \div 10) + 1]>>
                ELSE <<Digits[(f \div 10) + 1], Digits[(f % 10) + 1]>>
    IN (IF h < 0 THEN <<"-">> ELSE <<>>) \o NatToStr(a \div 100) \o <<".">> \o frac

\* int(x) of a finite float: truncation toward zero
Trunc(h) == IF h >= 0 THEN h \div 100 ELSE -((-h) \div 100)

\* the value of a run of digits
RECURSIVE DigitsVal(_)
DigitsVal(t) ==
    IF t = <<>> THEN 0
    ELSE DigitsVal(SubSeq(t, 1, Len(t) - 1)) * 10 + DigitVal(t[Len(t)])

AllDigits(t) == \A k \in 1..Len(t) : IsDigit(t[k])

\* a digit part of a Python numeric literal: digits, with single underscores
\* between digits
IsDigitPart(t) ==
    /\ t # <<>>
    /\ \A k \in 1..Len(t) :
         \/ IsDigit(t[k])
         \/ t[k] = "_" /\ 1 < k /\ k < Len(t) /\ IsDigit(t[k - 1]) /\ IsDigit(t[k + 1])
\* the digits of a digit part
DigitsOf(t) == SelectSeq(t, IsDigit)

RECURSIVE Pow10(_)
Pow10(k) == IF k <= 0 THEN 1 ELSE 10 * Pow10(k - 1)

\* float(t) of a text: Flt, NaN, Inf, NegInf, or Raised for ValueError.  The
\* grammar is that of float(): surrounding whitespace ignored, then
\*   [sign] (digitpart [. [digitpart]] | . digitpart) [(e | E) [sign] digitpart]
\*   | [sign] (inf | infinity | nan) in any letter case.
\* Digits after the second fractional digit are dropped (the cell domains
\* carry at most two), and a value of more than 309 integer digits is an
\* infinity.
Negate(f) ==
    CASE f.tag = "float" -> Flt(-f.n)
      [] f.tag = "inf" -> NegInf
      [] OTHER -> f
\* the hundredths of the digits d with the point after the first p of them
Scale(d, p) ==
    IF \A k \in 1..Len(d) : d[k] = "0" THEN Flt(0)
    ELSE IF p > 309 THEN Inf
    ELSE IF p + 2 <= 0 THEN Flt(0)
    ELSE IF p + 2 >= Len(d) THEN Flt(DigitsVal(d) * Pow10(p + 2 - Len(d)))
    ELSE Flt(DigitsVal(SubSeq(d, 1, p + 2)))
\* the digit parts before and after the point, and the exponent
ParseParts(ip, fp, e) ==
    IF \/ ip # <<>> /\ ~IsDigitPart(ip)
       \/ fp # <<>> /\ ~IsDigitPart(fp)
       \/ Len(ip) + Len(fp) = 0
    THEN Raised
    ELSE Scale(DigitsOf(ip) \o DigitsOf(fp), Len(DigitsOf(ip)) + e)
\* the place of the first point, or one past the end
DotPos(u) ==
    IF \E k \in 1..Len(u) : u[k] = "."
    THEN CHOOSE k \in 1..Len(u) : u[k] = "." /\ \A j \in 1..(k - 1) : u[j] # "."
    ELSE Len(u) + 1
SplitAt(u, dot, e) ==
    ParseParts(SubSeq(u, 1, dot - 1), SubSeq(u, dot + 1, Len(u)), e)
\* the place of the first exponent marker, or one past the end
ExpPos(u) ==
    IF \E k \in 1..Len(u) : u[k] \in {"e", "E"}
    THEN CHOOSE k \in 1..Len(u) :
            u[k] \in {"e", "E"} /\ \A j \in 1..(k - 1) : u[j] \notin {"e", "E"}
    ELSE Len(u) + 1
\* the exponent after the marker: [sign] digitpart
ExponentDigits(x, sign) ==
    IF IsDigitPart(x) THEN Int_(sign * DigitsVal(DigitsOf(x))) ELSE Raised
ExponentVal(x) ==
    IF x # <<>> /\ Head(x) = "-" THEN ExponentDigits(Tail(x), -1)
    ELSE IF x # <<>> /\ Head(x) = "+" THEN ExponentDigits(Tail(x), 1)
    ELSE ExponentDigits(x, 1)
WithExponent(m, e) == IF IsRaised(e) THEN Raised ELSE SplitAt(m, DotPos(m), e.n)
SplitExponent(u, ep) ==
    IF ep > Len(u) THEN SplitAt(u, DotPos(u), 0)
    ELSE WithExponent(SubSeq(u, 1, ep - 1), ExponentVal(SubSeq(u, ep + 1, Len(u))))
ParseWord(w, u) ==
    IF w \in {<<"i", "n", "f">>, <<"i", "n", "f", "i", "n", "i", "t", "y">>} THEN Inf
    ELSE IF w = <<"n", "a", "n">> THEN NaN
    ELSE SplitExponent(u, ExpPos(u))
ParseUnsigned(u) == ParseWord(LowerText(u), u)
ParseSigned(t) ==
    IF t # <<>> /\ Head(t) \in {"-", "+"} /\ Tail(t) # <<>> /\ Head(Tail(t)) \notin {"-", "+"}
    THEN (IF Head(t) = "-" THEN Negate(ParseUnsigned(Tail(t))) ELSE ParseUnsigned(Tail(t)))
    ELSE ParseUnsigned(t)
ParseFloatText(t0) == ParseSigned(NumberStrip(t0))

\* int(t) of a text: [sign] digitpart, surrounding whitespace ignored; Raised
\* for ValueError
ParseIntDigits(u, sign) ==
    IF IsDigitPart(u) THEN Int_(sign * DigitsVal(DigitsOf(u))) ELSE Raised
ParseIntSigned(t) ==
    IF t # <<>> /\ Head(t) = "-" THEN ParseIntDigits(Tail(t), -1)
    ELSE IF t # <<>> /\ Head(t) = "+" THEN ParseIntDigits(Tail(t), 1)
    ELSE ParseIntDigits(t, 1)
ParseIntText(t0) == ParseIntSigned(NumberStrip(t0))

-----------------------------------------------------------------------------
(* The field normalizers of import_payroll.py. *)

\* int(x) of a float: ValueError for NaN (caught), OverflowError for an
\* infinity (not caught)
IntOfFloat(f) ==
    CASE f.tag = "float" -> Int_(Trunc(f.n))
      [] f.tag = "inf" -> Raised
      [] OTHER -> None
IntegerOfText(t) ==
    IF t = <<>> \/ t = <<"-">> THEN None ELSE IntOfFloat(ParseFloatText(t))

\* parse_integer: int(value) of a number, int(float(value)) of a text.  Only
\* ValueError and TypeError are caught: the OverflowError of int(inf) leaves.
parse_integer(value) ==
    CASE value.tag = "null" -> None
      [] value.tag = "int" -> value
      [] value.tag = "bool" -> Int_(value.n)
      [] value.tag \in {"float", "nan", "inf"} -> IntOfFloat(value)
      [] value.tag = "str" -> IntegerOfText(Strip(value.s))
      [] OTHER -> None

NoneIfRaised(f) == IF IsRaised(f) THEN None ELSE f
FloatOfText(t) ==
    IF t = <<>> \/ t = <<"-">> THEN None ELSE NoneIfRaised(ParseFloatText(t))

\* parse_float: float(value)
parse_float(value) ==
    CASE value.tag = "null" -> None
      [] value.tag \in {"int", "bool"} -> Flt(value.n * 100)
      [] value.tag \in {"float", "nan", "inf"} -> value
      [] value.tag = "str" -> FloatOfText(Strip(value.s))
      [] OTHER -> None

\* Python truthiness of a cell value
Truthy(value) ==
    CASE value.tag = "null" -> FALSE
      [] value.tag \in {"int", "float", "bool"} -> value.n # 0
      [] value.tag = "str" -> value.s # <<>>
      [] OTHER -> TRUE

\* str(value): of a number its repr, of a text the text
StrOf(value) ==
    CASE value.tag = "int" -> IntToStr(value.n)
      [] value.tag = "float" -> FloatToStr(value.n)
      [] value.tag = "nan" -> <<"n", "a", "n">>
      [] value.tag = "inf" ->
            IF value.n < 0 THEN <<"-", "i", "n", "f">> ELSE <<"i", "n", "f">>
      [] value.tag = "bool" ->
            IF value.n = 1 THEN <<"T", "r", "u", "e">> ELSE <<"F", "a", "l", "s", "e">>
      [] OTHER -> value.s

\* `value if value and value != '-' else None` of a trimmed text
TextOrNone(t) == IF t # <<>> /\ t # <<"-">> THEN Str(t) ELSE None

\* parse_text: the trimmed text; None for None, a blank, the dash and a zero
parse_text(value) ==
    CASE value.tag = "null" -> None
      [] value.tag \in {"int", "float", "nan", "inf", "bool"} ->
            IF Truthy(value) THEN Str(Strip(StrOf(value))) ELSE None
      [] value.tag = "str" -> TextOrNone(Strip(value.s))
      [] OTHER -> None

\* str(int(float(value))), or the text itself when ValueError is caught
HireDateOfParsed(f, t) ==
    CASE f.tag = "float" -> Str(IntToStr(Trunc(f.n)))
      [] f.tag = "inf" -> Raised
      [] OTHER -> Str(t)
HireDateOfText(t) ==
    IF t = <<"-">> \/ t = <<>> THEN None ELSE HireDateOfParsed(ParseFloatText(t), t)

\* parse_last_hire_date: str(int(value)) of a number (nothing is caught there),
\* str(int(float(value))) of a numeric text, else the trimmed text
parse_last_hire_date(value) ==
    CASE value.tag = "null" -> None
      [] value.tag \in {"int", "bool"} -> Str(IntToStr(value.n))
      [] value.tag = "float" -> Str(IntToStr(Trunc(value.n)))
      [] value.tag \in {"nan", "inf"} -> Raised
      [] value.tag = "str" -> HireDateOfText(Strip(value.s))
      [] OTHER -> None

\* `x or 0.0`
OrZero(value) == IF Truthy(value) THEN value ELSE Flt(0)

-----------------------------------------------------------------------------
(* Python dicts: insertion-ordered, a repeated key keeps its first position  *)
(* and takes the last value.  A dict is a sequence of [k, v] entries.        *)

DictHas(d, key) == \E e \in 1..Len(d) : d[e].k = key
DictGet(d, key) == d[CHOOSE e \in 1..Len(d) : d[e].k = key].v
\* d[key] = value
DictSet(d, key, value) ==
    IF DictHas(d, key)
    THEN [e \in 1..Len(d) |-> IF d[e].k = key THEN [k |-> key, v |-> value] ELSE d[e]]
    ELSE Append(d, [k |-> key, v |-> value])

-----------------------------------------------------------------------------
(* import_payroll.py: the rows, the two lookups and the join. *)

\* the dictionary parse_hr_row returns; the model keeps one column of each
\* normalizer
HrRecord(row) ==
    [temporary_id |-> parse_text(row.TEMPORARY_ID),
     record_nbr |-> parse_integer(row.RECORD_NBR),
     employee_name |-> parse_text(row.EMPLOYEE_NAME),
     last_hire_date |-> parse_last_hire_date(row.LAST_HIRE_DATE),
     compensation_rate |-> parse_float(row.COMPENSATION_RATE)]

\* None when TEMPORARY_ID normalizes to nothing, and None when a normalizer
\* raises (the except Exception of parse_hr_row)
HrRecordOrNone(rec) ==
    IF ~Truthy(rec.temporary_id) THEN None
    ELSE IF \E f \in DOMAIN rec : IsRaised(rec[f]) THEN None
    ELSE rec

\* parse_hr_row
parse_hr_row(row) == HrRecordOrNone(HrRecord(row))

EarningsRecord(temporary_id, row) ==
    IF ~Truthy(temporary_id) THEN None
    ELSE [temporary_id |-> temporary_id,
          regular_wages |-> OrZero(parse_float(row.REGULAR_WAGES)),
          overtime_wages |-> OrZero(parse_float(row.OVERTIME_WAGES)),
          other_wages |-> OrZero(parse_float(row.OTHER_WAGES)),
          total_wages |-> OrZero(parse_float(row.TOTAL_WAGES))]

\* parse_earnings_row
parse_earnings_row(row) == EarningsRecord(parse_text(row.TEMPORARY_ID), row)

\* if parsed and parsed['temporary_id']: data[parsed['temporary_id']] = parsed
DictPutFirstWins(data, parsed) ==
    IF parsed = None \/ DictHas(data, parsed.temporary_id) THEN data
    ELSE DictSet(data, parsed.temporary_id, parsed)

DictPut(data, parsed) ==
    IF parsed = None THEN data ELSE DictSet(data, parsed.temporary_id, parsed)

\* the loop that fills hr_data
RECURSIVE ReadHrSheet(_)
ReadHrSheet(rows) ==
    IF rows = <<>> THEN <<>>
    ELSE DictPut(ReadHrSheet(SubSeq(rows, 1, Len(rows) - 1)), parse_hr_row(rows[Len(rows)]))

\* the loop that fills earnings_data
RECURSIVE ReadEarningsSheet(_)
ReadEarningsSheet(rows) ==
    IF rows = <<>> THEN <<>>
    ELSE DictPut(ReadEarningsSheet(SubSeq(rows, 1, Len(rows) - 1)),
                 parse_earnings_row(rows[Len(rows)]))

\* earnings_data.get(temp_id, {}): the entry, or None for the empty dict
EarningsGet(earnings_data, temp_id) ==
    IF DictHas(earnings_data, temp_id) THEN DictGet(earnings_data, temp_id) ELSE None

\* earnings_record.get(field, 0.0)
WageGet(earnings_record, field) ==
    IF earnings_record = None THEN Flt(0) ELSE earnings_record[field]

\* one combined record: the HR record, the fiscal year and the four wage fields
Combine(hr_record, earnings_record, fiscal_year) ==
    [temporary_id |-> hr_record.temporary_id,
     record_nbr |-> hr_record.record_nbr,
     employee_name |-> hr_record.employee_name,
     last_hire_date |-> hr_record.last_hire_date,
     compensation_rate |-> hr_record.compensation_rate,
     fiscal_year |-> fiscal_year,
     regular_wages |-> WageGet(earnings_record, "regular_wages"),
     overtime_wages |-> WageGet(earnings_record, "overtime_wages"),
     other_wages |-> WageGet(earnings_record, "other_wages"),
     total_wages |-> WageGet(earnings_record, "total_wages")]

\* the join loop: one combined record per entry of hr_data, in the dict's order
JoinRecords(hr_data, earnings_data, fiscal_year) ==
    [e \in 1..Len(hr_data) |->
        Combine(hr_data[e].v, EarningsGet(earnings_data, hr_data[e].k), fiscal_year)]

\* the records list of import_payroll_file
JoinPayroll(hr_rows, earnings_rows, fiscal_year) ==
    JoinRecords(ReadHrSheet(hr_rows), ReadEarningsSheet(earnings_rows), fiscal_year)

-----------------------------------------------------------------------------
(* import_fy2025_payroll.py: the pandas pipeline.  A frame is a sequence of  *)
(* rows; a column has a dtype, which read_excel infers from all its cells.   *)
(* A frame is a record of its rows and of the dtype of each column.          *)

\* the FISCAL_YEARS list of import_payroll.py, and str(fiscal_year)
FISCAL_YEARS == <<2020>>
FiscalYearText(fiscal_year) == Str(IntToStr(fiscal_year))
\* FISCAL_YEAR = "2025"
FISCAL_YEAR == Str(<<"2", "0", "2", "5">>)

\* pd.NaT, the missing value of a datetime64 column
NaT == [tag |-> "nat", s |-> <<>>, n |-> 0]
\* pd.isna
IsNa(value) == value.tag \in {"null", "nan", "nat"}

\* the texts pd.read_excel reads as NaN: its default na_values
NA_VALUES ==
    { <<>>,
      <<"#", "N", "/", "A">>,
      <<"#", "N", "/", "A", " ", "N", "/", "A">>,
      <<"#", "N", "A">>,
      <<"-", "1", ".", "#", "I", "N", "D">>,
      <<"-", "1", ".", "#", "Q", "N", "A", "N">>,
      <<"-", "N", "a", "N">>,
      <<"-", "n", "a", "n">>,
      <<"1", ".", "#", "I", "N", "D">>,
      <<"1", ".", "#", "Q", "N", "A", "N">>,
      <<"<", "N", "A", ">">>,
      <<"N", "/", "A">>,
      <<"N", "A">>,
      <<"N", "U", "L", "L">>,
      <<"N", "a", "N">>,
      <<"N", "o", "n", "e">>,
      <<"n", "/", "a">>,
      <<"n", "a", "n">>,
      <<"n", "u", "l", "l">> }

\* pd.read_excel, one cell: an empty cell and a text of NA_VALUES are NaN, a
\* float without fractional part is an int.  The reader calls int() on every
\* numeric cell: a NaN (ValueError) and an infinity (OverflowError) raise.
ReadExcelCell(value) ==
    CASE value.tag = "null" -> NaN
      [] value.tag \in {"nan", "inf"} -> Raised
      [] value.tag = "str" /\ value.s \in NA_VALUES -> NaN
      [] value.tag = "float" /\ value.n % 100 = 0 -> Int_(value.n \div 100)
      [] OTHER -> value
\* pd.read_excel raises on a cell of the sheet
SheetRaises(rows) ==
    \E r \in 1..Len(rows) : \E c \in DOMAIN rows[r] : IsRaised(ReadExcelCell(rows[r][c]))

\* the number pandas reads in a text (floatify): the decimal grammar of float()
\* without digit separators and with the whitespace of isspace only, or one of the
\* words inf and infinity, with or without a sign and without whitespace, in
\* any letter case.  The word nan is no number there: only the spellings of
\* NA_VALUES are read as NaN, and the cell reader does that.
InfWords ==
    { <<"i", "n", "f">>, <<"+", "i", "n", "f">>, <<"-", "i", "n", "f">>,
      <<"i", "n", "f", "i", "n", "i", "t", "y">>,
      <<"+", "i", "n", "f", "i", "n", "i", "t", "y">>,
      <<"-", "i", "n", "f", "i", "n", "i", "t", "y">> }
FiniteOnly(f) == IF f.tag \in {"nan", "inf"} THEN Raised ELSE f
Floatify(t) ==
    IF \E k \in 1..Len(t) : t[k] = "_" \/ t[k] \in Whitespace \ AsciiWhitespace
    THEN Raised
    ELSE IF LowerText(t) \in InfWords THEN ParseFloatText(t)
    ELSE FiniteOnly(ParseFloatText(t))

\* the texts read_excel reads as booleans: the parser's true and false values
TrueWords == {<<"T", "r", "u", "e">>, <<"T", "R", "U", "E">>, <<"t", "r", "u", "e">>}
FalseWords ==
    {<<"F", "a", "l", "s", "e">>, <<"F", "A", "L", "S", "E">>, <<"f", "a", "l", "s", "e">>}
\* maybe_convert_bool: a column that is no number column and holds only
\* booleans, the texts above and NaN becomes a column of booleans (and NaN)
IsBoolLike(v) ==
    \/ v.tag \in {"bool", "nan"}
    \/ v.tag = "str" /\ v.s \in TrueWords \cup FalseWords
AsBool(v) == IF v.tag = "str" THEN Bool(v.s \in TrueWords) ELSE v
MaybeConvertBool(cells) ==
    IF \A k \in 1..Len(cells) : IsBoolLike(cells[k])
    THEN [k \in 1..Len(cells) |-> AsBool(cells[k])]
    ELSE cells

\* the dtype read_excel gives a column: datetime64 when its cells are
\* datetimes and empty cells; numeric when every cell is NaN, a number or a
\* text that reads as a number (bool when every cell is a boolean); else bool
\* when every cell is a boolean or one of the texts read as booleans; object
\* otherwise and for a sheet without rows
IsNumericCell(v) ==
    \/ v.tag \in {"nan", "int", "float", "bool"}
    \/ v.tag = "str" /\ ~IsRaised(Floatify(v.s))
IsIntegerCell(v) ==
    \/ v.tag \in {"int", "bool"}
    \/ /\ v.tag = "str"
       /\ Floatify(v.s).tag = "float"
       /\ \A k \in 1..Len(v.s) : v.s[k] \notin {".", "e", "E"}
ColumnDtype(cells) ==
    IF cells = <<>> THEN "object"
    ELSE IF /\ \A k \in 1..Len(cells) : cells[k].tag \in {"other", "nan"}
            /\ \E k \in 1..Len(cells) : cells[k].tag = "other"
    THEN "datetime64"
    ELSE IF \E k \in 1..Len(cells) : ~IsNumericCell(cells[k])
    THEN (IF \A k \in 1..Len(cells) : IsBoolLike(cells[k]) /\ cells[k].tag # "nan"
          THEN "bool" ELSE "object")
    ELSE IF \A k \in 1..Len(cells) : cells[k].tag = "bool" THEN "bool"
    ELSE IF \A k \in 1..Len(cells) : IsIntegerCell(cells[k]) THEN "int64"
    ELSE "float64"
\* a cell as a column of a dtype holds it
AsFloat(v) ==
    CASE v.tag \in {"int", "bool"} -> Flt(v.n * 100)
      [] v.tag = "str" -> Floatify(v.s)
      [] OTHER -> v
AsInt(v) ==
    CASE v.tag = "str" -> Int_(Trunc(Floatify(v.s).n))
      [] v.tag = "bool" -> Int_(v.n)
      [] OTHER -> v
AsDatetime(v) == IF v.tag = "nan" THEN NaT ELSE v
CastCell(dtype, v) ==
    CASE dtype = "int64" -> AsInt(v)
      [] dtype = "float64" -> AsFloat(v)
      [] dtype = "datetime64" -> AsDatetime(v)
      [] dtype = "bool" -> AsBool(v)
      [] OTHER -> v
\* the cells of column c as read_excel reads them one by one
Column(rows, c) == [r \in 1..Len(rows) |-> ReadExcelCell(rows[r][c])]
\* a column as read_excel returns it; an object column of booleans and NaN
\* holds the booleans
CastColumn(dtype, cells) ==
    IF dtype = "object" THEN MaybeConvertBool(cells)
    ELSE [k \in 1..Len(cells) |-> CastCell(dtype, cells[k])]
ReadExcelColumn(cells) == CastColumn(ColumnDtype(cells), cells)
\* pd.read_excel of a sheet: the frame
ReadExcel(rows) ==
    [rows |-> [r \in 1..Len(rows) |->
                  [c \in DOMAIN rows[r] |-> ReadExcelColumn(Column(rows, c))[r]]],
     dtypes |-> IF rows = <<>> THEN <<>>
                ELSE [c \in DOMAIN rows[1] |-> ColumnDtype(Column(rows, c))]]
\* the dtype of a column of a frame; every column of an empty frame is object
DtypeOf(frame, c) == IF frame.rows = <<>> THEN "object" ELSE frame.dtypes[c]

\* a number as a float: the int 1, the float 1.0 and True are the same key
AsNumber(value) == IF value.tag \in {"int", "bool"} THEN Flt(value.n * 100) ELSE value
\* two cells are the same key
KeyEq(a, b) == AsNumber(a) = AsNumber(b)

\* earnings.drop_duplicates(subset=["TEMPORARY_ID"], keep="first")
KeepFirst(kept, row) ==
    IF \E r \in 1..Len(kept) : KeyEq(kept[r].TEMPORARY_ID, row.TEMPORARY_ID)
    THEN kept ELSE Append(kept, row)

RECURSIVE DropDuplicateRows(_)
DropDuplicateRows(rows) ==
    IF rows = <<>> THEN <<>>
    ELSE KeepFirst(DropDuplicateRows(SubSeq(rows, 1, Len(rows) - 1)), rows[Len(rows)])
DropDuplicates(frame) == [frame EXCEPT !.rows = DropDuplicateRows(@)]

\* the int64 view of a datetime: its nanoseconds since 1970, a number beyond
\* the integers of the model, held by the datetime it views; the view of NaT
\* is the least int64
Nanoseconds(value) == [tag |-> "int64view", s |-> value.s, n |-> 0]

\* pd.to_numeric(errors="coerce") of one cell of an object column
NanIfRaised(f) == IF IsRaised(f) THEN NaN ELSE f
ToNumeric(value) ==
    CASE value.tag \in {"null", "nan"} -> NaN
      [] value.tag \in {"int", "bool"} -> Flt(value.n * 100)
      [] value.tag \in {"float", "inf", "int64view"} -> value
      [] value.tag = "str" -> NanIfRaised(Floatify(value.s))
      [] OTHER -> NaN
\* pd.to_numeric(errors="coerce") of a column: a numeric column (bool is one)
\* is returned as it is, a datetime64 column gives its int64 view, an object
\* column is converted cell by cell: it stays as it is when every cell is a
\* boolean, and is int64 when every cell is an integer
ToNumericColumn(cells, dtype) ==
    CASE dtype \in {"int64", "float64", "bool"} -> cells
      [] dtype = "datetime64" -> [k \in 1..Len(cells) |-> Nanoseconds(cells[k])]
      [] OTHER ->
            IF \A k \in 1..Len(cells) : cells[k].tag = "bool" THEN cells
            ELSE IF \A k \in 1..Len(cells) : IsIntegerCell(cells[k])
            THEN [k \in 1..Len(cells) |-> AsInt(cells[k])]
            ELSE [k \in 1..Len(cells) |-> ToNumeric(cells[k])]

\* .fillna(0)
FillNa0(value) == IF IsNa(value) THEN Flt(0) ELSE value

\* .astype("Int64") of a float: a value with a fractional part and an infinity
\* raise; of a boolean: 1 or 0
AsInt64(f) ==
    CASE f.tag = "float" -> IF f.n % 100 = 0 THEN Int_(f.n \div 100) ELSE Raised
      [] f.tag = "inf" -> Raised
      [] f.tag = "nan" -> None
      [] f.tag = "bool" -> Int_(f.n)
      [] OTHER -> f
\* the lambda of the int_cols loop: None for None and NaN, else int(x): of a
\* number its integer part, of a text the integer it spells (ValueError when
\* it spells none), of an infinity OverflowError, of a datetime TypeError, of
\* NaT the least int64
IntOrNone(f) ==
    CASE f.tag \in {"null", "nan"} -> None
      [] f.tag = "float" -> Int_(Trunc(f.n))
      [] f.tag = "bool" -> Int_(f.n)
      [] f.tag \in {"int", "int64view", "raise"} -> f
      [] f.tag = "str" -> ParseIntText(f.s)
      [] f.tag = "nat" -> Nanoseconds(f)
      [] OTHER -> Raised
\* record_nbr: to_numeric(errors="coerce").astype("Int64") of the column, then
\* int(x) or None
Fy25RecordNbr(cells, dtype, r) == IntOrNone(AsInt64(ToNumericColumn(cells, dtype)[r]))

\* last_hire_safe
StrippedOrNone(t) == IF t = <<>> THEN None ELSE Str(t)
last_hire_safe(val) ==
    IF IsNa(val) THEN None
    ELSE IF val = Str(<<"-">>) THEN None
    ELSE StrippedOrNone(Strip(StrOf(val)))

\* df.replace({np.nan: None}) of one cell
NanToNone(value) == IF IsNa(value) THEN None ELSE value

\* the earnings row a left merge puts beside an HR row: pandas matches a NaN
\* key with a NaN key, and an int key with the float of the same value
MergeMatch(earnings, temporary_id) ==
    IF \E e \in 1..Len(earnings) : KeyEq(earnings[e].TEMPORARY_ID, temporary_id)
    THEN earnings[CHOOSE e \in 1..Len(earnings) :
                      KeyEq(earnings[e].TEMPORARY_ID, temporary_id)]
    ELSE None

\* a column of the earnings sheet in the merged frame: NaN where no earnings
\* row matched, which makes an int64 column float64
Unmatched(hr, earnings) ==
    \E r \in 1..Len(hr) : MergeMatch(earnings, hr[r].TEMPORARY_ID) = None
MergedDtype(dtype, unmatched) ==
    CASE dtype = "int64" /\ unmatched -> "float64"
      [] dtype = "bool" /\ unmatched -> "object"
      [] OTHER -> dtype
MergedCell(e, column) == IF e = None THEN NaN ELSE e[column]
MergedColumn(hr, earnings, column, dtype) ==
    [r \in 1..Len(hr) |->
        CastCell(dtype, MergedCell(MergeMatch(earnings, hr[r].TEMPORARY_ID), column))]

\* a wage column: to_numeric(errors="coerce").fillna(0)
Fy25Wage(cells, dtype, r) == FillNa0(ToNumericColumn(cells, dtype)[r])
\* the wage column of the merged frame, row r
Fy25MergedWage(hr, earnings, column, dtype, r) ==
    Fy25Wage(MergedColumn(hr.rows, earnings.rows, column, dtype), dtype, r)

\* the record number of row r of the HR frame
Fy25RecordNbrOf(hr, r) ==
    Fy25RecordNbr([k \in 1..Len(hr.rows) |-> hr.rows[k].RECORD_NBR], DtypeOf(hr, "RECORD_NBR"), r)
\* .astype("Int64") raises on a record number
RecordNbrRaises(hr) == \E r \in 1..Len(hr.rows) : IsRaised(Fy25RecordNbrOf(hr, r))

\* row r of the merged frame after the column fixes
Fy25Record(h, r, hr, earnings, unmatched) ==
    [temporary_id |-> NanToNone(h.TEMPORARY_ID),
     record_nbr |-> Fy25RecordNbrOf(hr, r),
     employee_name |-> NanToNone(h.EMPLOYEE_NAME),
     last_hire_date |-> last_hire_safe(h.LAST_HIRE_DATE),
     compensation_rate |-> NanToNone(h.COMPENSATION_RATE),
     fiscal_year |-> FISCAL_YEAR,
     regular_wages |->
        Fy25MergedWage(hr, earnings, "REGULAR_WAGES",
                       MergedDtype(DtypeOf(earnings, "REGULAR_WAGES"), unmatched), r),
     overtime_wages |->
        Fy25MergedWage(hr, earnings, "OVERTIME_WAGES",
                       MergedDtype(DtypeOf(earnings, "OVERTIME_WAGES"), unmatched), r),
     other_wages |->
        Fy25MergedWage(hr, earnings, "OTHER_WAGES",
                       MergedDtype(DtypeOf(earnings, "OTHER_WAGES"), unmatched), r),
     total_wages |->
        Fy25MergedWage(hr, earnings, "TOTAL_WAGES",
                       MergedDtype(DtypeOf(earnings, "TOTAL_WAGES"), unmatched), r)]

\* hr.merge(earnings, on="TEMPORARY_ID", how="left"): every HR row is kept
MergeLeft(hr, earnings) ==
    [r \in 1..Len(hr.rows) |->
        Fy25Record(hr.rows[r], r, hr, earnings, Unmatched(hr.rows, earnings.rows))]

\* the key columns merge refuses (ValueError), neither frame being empty: one
\* numeric and the other an object column of texts, or one datetime64 and the
\* other not.  A column without a text is numeric: a TEMPORARY_ID column of
\* empty cells only is float64.  A bool column is merged with any column but
\* a datetime64 one: the keys are compared as objects, True being 1.
TextKeys(frame) ==
    /\ DtypeOf(frame, "TEMPORARY_ID") = "object"
    /\ \A r \in 1..Len(frame.rows) : frame.rows[r].TEMPORARY_ID.tag # "int"
NumericKeys(frame) == DtypeOf(frame, "TEMPORARY_ID") \in {"int64", "float64"}
DatetimeKeys(frame) == DtypeOf(frame, "TEMPORARY_ID") = "datetime64"
MergeRaises(hr, earnings) ==
    /\ hr.rows # <<>>
    /\ earnings.rows # <<>>
    /\ \/ NumericKeys(hr) /\ TextKeys(earnings)
       \/ TextKeys(hr) /\ NumericKeys(earnings)
       \/ DatetimeKeys(hr) # DatetimeKeys(earnings)

\* the records of import_fy2025_payroll.main
JoinFy2025(hr_rows, earnings_rows) ==
    MergeLeft(ReadExcel(hr_rows), DropDuplicates(ReadExcel(earnings_rows)))

\* main() ends with an exception before the batch loop: read_excel raises on
\* a cell, the merge refuses the key columns (those of the earnings frame
\* being the ones drop_duplicates left), or a record number does not convert
Fy2025Raises(hr_rows, earnings_rows) ==
    \/ SheetRaises(hr_rows)
    \/ SheetRaises(earnings_rows)
    \/ MergeRaises(ReadExcel(hr_rows), DropDuplicates(ReadExcel(earnings_rows)))
    \/ RecordNbrRaises(ReadExcel(hr_rows))

-----------------------------------------------------------------------------
(* import_budgets.py: the normalizers and the rows. *)

\* `not value or not value.strip()` of a CSV cell (a str, or None), and of a
\* number that is zero
BudgetBlank(value) == IsNone(value) \/ Strip(value.s) = <<>>
\* value.strip() of a value that is no text: AttributeError, which no
\* normalizer of import_budgets.py catches
HasNoStrip(value) == value.tag \notin {"null", "str"} /\ Truthy(value)

\* parse_decimal
ZeroIfRaised(f) == IF IsRaised(f) THEN Flt(0) ELSE f
parse_decimal(value) ==
    IF HasNoStrip(value) THEN Raised
    ELSE IF BudgetBlank(value) THEN Flt(0)
    ELSE ZeroIfRaised(ParseFloatText(RemoveCommas(Strip(value.s))))

\* parse_integer of import_budgets.py
budgets_parse_integer(value) ==
    IF HasNoStrip(value) THEN Raised
    ELSE IF BudgetBlank(value) THEN None
    ELSE NoneIfRaised(ParseIntText(Strip(value.s)))

\* normalize_text
normalize_text(value) ==
    IF HasNoStrip(value) THEN Raised
    ELSE IF BudgetBlank(value) THEN None
    ELSE Str(Strip(value.s))

\* parse_budget_row; the model keeps one column of each normalizer.  An
\* exception of a normalizer is caught by `except Exception`: the row is None.
BudgetRecordOrNone(rec) ==
    IF IsRaised(rec.agency) \/ IsRaised(rec.available_amount) THEN None ELSE rec
BudgetRecord(budget_period, row) ==
    IF budget_period = None \/ IsRaised(budget_period) THEN None
    ELSE BudgetRecordOrNone([budget_period |-> budget_period,
                             agency |-> normalize_text(row.Agency),
                             available_amount |-> parse_decimal(row.AvailableAmount)])
parse_budget_row(row) == BudgetRecord(budgets_parse_integer(row.BudgetPeriod), row)

\* the reading loop of import_budget_file: the records, and the rows skipped
AppendParsed(recs, parsed) == IF parsed = None THEN recs ELSE Append(recs, parsed)
RECURSIVE BudgetRecords(_)
BudgetRecords(rows) ==
    IF rows = <<>> THEN <<>>
    ELSE AppendParsed(BudgetRecords(SubSeq(rows, 1, Len(rows) - 1)),
                      parse_budget_row(rows[Len(rows)]))
BudgetSkipped(rows) == Cardinality({r \in 1..Len(rows) : parse_budget_row(rows[r]) = None})

-----------------------------------------------------------------------------
(* The store: the persistence adapter of the spec (section 6).  insert adds  *)
(* the rows; upsert adds a row whose conflict key is new and replaces the    *)
(* row that has its key.                                                     *)

\* a conflict target without the fiscal year
NaturalKeyFieldsWithoutYear == {"temporary_id", "record_nbr"}

\* on_conflict="temporary_id,record_nbr,fiscal_year"
NaturalKeyFields == {"temporary_id", "record_nbr", "fiscal_year"}
\* on_conflict of import_budgets.py: every column of the record
BudgetKeyFields == {"budget_period", "agency", "available_amount"}

\* the conflict key of a row
KeyOf(r, on_conflict) == [f \in on_conflict |-> r[f]]

Insert(table, batch) == table \o batch

UpsertRow(table, r, on_conflict) ==
    IF \E x \in 1..Len(table) : KeyOf(table[x], on_conflict) = KeyOf(r, on_conflict)
    THEN [x \in 1..Len(table) |->
            IF KeyOf(table[x], on_conflict) = KeyOf(r, on_conflict) THEN r ELSE table[x]]
    ELSE Append(table, r)

RECURSIVE Upsert(_, _, _)
Upsert(table, batch, on_conflict) ==
    IF batch = <<>> THEN table
    ELSE Upsert(UpsertRow(table, Head(batch), on_conflict), Tail(batch), on_conflict)

\* the rows of a batch whose key the table did not hold
NewRows(table, batch, on_conflict) == Len(Upsert(table, batch, on_conflict)) - Len(table)

-----------------------------------------------------------------------------
(* Inputs. *)

\* all sequences over S of length at most n
SeqsUpTo(S, n) == UNION {[1..k -> S] : k \in 0..n}

T_A1 == <<"A", "1">>
T_B2 == <<"B", "2">>
T_C3 == <<"C", "3">>

HrRow(id, nbr, name, hire, rate) ==
    [TEMPORARY_ID |-> id, RECORD_NBR |-> nbr, EMPLOYEE_NAME |-> name,
     LAST_HIRE_DATE |-> hire, COMPENSATION_RATE |-> rate]

EarningsRow(id, regular, overtime, other, total) ==
    [TEMPORARY_ID |-> id, REGULAR_WAGES |-> regular, OVERTIME_WAGES |-> overtime,
     OTHER_WAGES |-> other, TOTAL_WAGES |-> total]

BudgetRow(period, agency, available) ==
    [BudgetPeriod |-> period, Agency |-> agency, AvailableAmount |-> available]

\* HR INFO rows of the join specification: a repeated Identifier, an
\* Identifier to trim, the three kinds of missing Identifier, and a row whose
\* hire date cell is a NaN number; one name cell holds the number 0; a row of
\* the texts read_excel reads as booleans and of the text NAN, which it keeps
HrRows ==
    { HrRow(Str(T_A1), None, Int_(0), Str(<<"-">>), None),
      HrRow(Str(T_A1), Str(<<"5">>), Str(<<"A", "n", "n">>), Int_(25610),
            Str(<<"3", "1", ".", "5", "0">>)),
      HrRow(Str(<<>>), Str(<<"9">>), None, None, None),
      HrRow(Str(<<" ", "B", "2", " ">>), Int_(1), Str(<<" ", "B", "o", "b">>),
            Str(<<"1", "2", ".", "0">>), Flt(2550)),
      HrRow(None, Int_(3), Str(<<"C", "y">>), None, None),
      HrRow(Str(<<"-">>), None, None, None, None),
      HrRow(Str(T_B2), Int_(2), Str(<<"B", "o", "b">>), NaN, Int_(40)),
      HrRow(Str(<<"T", "r", "u", "e">>), Str(<<"T", "R", "U", "E">>),
            Str(<<"f", "a", "l", "s", "e">>), Str(<<"N", "A", "N">>), Str(<<"N", "A", "N">>)) }

\* EARNINGS rows of the join specification: A1 twice with different wages, A1
\* untrimmed, B2, a row without Identifier, and a row of the texts read_excel
\* reads as booleans and of the text NAN
EarningsRows ==
    { EarningsRow(Str(T_A1), Str(<<"1", "0", "0", ".", "5", "0">>), None,
                  Str(<<"-">>), Str(<<"1", "0", "0", ".", "5", "0">>)),
      EarningsRow(Str(T_A1), Flt(20000), Int_(5), Str(<<"x">>),
                  Str(<<"1", ",", "2", "3", "4", ".", "5", "0">>)),
      EarningsRow(Str(<<"A", "1", " ">>), Int_(7), Flt(25), None, Flt(725)),
      EarningsRow(Str(T_B2), Str(<<" ", "4", "2", " ">>), NaN, Flt(0), Int_(42)),
      EarningsRow(None, Int_(9), Int_(9), Int_(9), Int_(27)),
      EarningsRow(Str(<<"T", "r", "u", "e">>), Str(<<"T", "r", "u", "e">>),
                  Str(<<"N", "A", "N">>), Str(<<"f", "a", "l", "s", "e">>), Int_(1)) }

\* EARNINGS sheets whose TEMPORARY_ID column holds a boolean, the number equal
\* to it and a text: drop_duplicates takes the number out as a duplicate of the
\* boolean, and the merge sees a column of a boolean and a text
MixedKeySheets ==
    { <<EarningsRow(Bool(TRUE), Int_(7), Int_(1), Int_(1), Int_(9)),
        EarningsRow(Int_(1), Int_(8), Int_(2), Int_(2), Int_(12)),
        EarningsRow(Str(T_A1), Int_(9), Int_(3), Int_(3), Int_(15))>> }
\* the EARNINGS sheets of the join specification
DetailSheets == SeqsUpTo(EarningsRows, MaxDetail) \cup MixedKeySheets

\* HR INFO rows of the load specification: three Identifiers, one of them with
\* two record numbers
LoadHrRows ==
    { HrRow(Str(T_A1), Int_(1), None, None, None),
      HrRow(Str(T_A1), Int_(2), None, None, None),
      HrRow(Str(T_B2), Int_(1), None, None, None),
      HrRow(Str(T_C3), Int_(1), None, None, None) }

LoadEarningsRows ==
    { EarningsRow(Str(T_A1), Int_(10), Int_(0), Int_(0), Int_(10)) }

\* budget CSV rows: two rows that parse, and one without a budget period
LoadBudgetRows ==
    { BudgetRow(Str(<<"2", "0", "2", "0">>), Str(<<"D", "O", "T">>), Str(<<"1", "0">>)),
      BudgetRow(Str(<<"2", "0", "2", "1">>), Str(<<"D", "N", "R">>),
                Str(<<"1", ",", "2", "0", "0", ".", "5", "0">>)),
      BudgetRow(Str(<<>>), Str(<<"D", "O", "T">>), Str(<<"5">>)) }

-----------------------------------------------------------------------------
(* The scripts as a state machine. *)

NoResult == [kind |-> "none", inserted |-> 0, skipped |-> 0]
Returned(inserted, skip) == [kind |-> "returned", inserted |-> inserted, skipped |-> skip]
\* an exception left main()
Raise == [kind |-> "raised", inserted |-> 0, skipped |-> 0]
\* the process was ended from outside
Aborted == [kind |-> "aborted", inserted |-> 0, skipped |-> 0]

Min(a, b) == IF a < b THEN a ELSE b
\* records[i:i + BATCH_SIZE]
Slice(recs, at) == SubSeq(recs, at + 1, Min(at + BATCH_SIZE, Len(recs)))
Batch == Slice(records, i)

\* the table a script writes
TableOf(l) == IF l = "import_budgets" THEN "budgets" ELSE "payroll"

\* what the history keeps of a run that ended
RunSummary(l, res, made, tbl) ==
    [loader |-> l, kind |-> res.kind,
     clean |-> \A c \in 1..Len(made) : made[c].ok,
     committed |-> Cardinality({c \in 1..Len(made) : made[c].ok}),
     rows |-> Len(tbl)]

\* one call on the store client: the operation, the offset of its slice,
\* whether it returned, and the number of rows in the result it returned
Call(op, at, ok, data) == [op |-> op, at |-> at, ok |-> ok, data |-> data]

\* main() is not running
NoMain == [script |-> "none", phase |-> "none", year |-> 0, total_inserted |-> 0,
           total_skipped |-> 0, seen |-> <<>>, resolved |-> [hr_sheet_name |-> None,
           earnings_sheet_name |-> None, active_col_name |-> None]]
\* the inspection script has not run
NoReport == [done |-> FALSE, keys |-> <<>>, unique |-> TRUE]
\* no normalizer has been called
NotNormalized == [fn |-> "none", out |-> None, times |-> 0]

InitCommon ==
    /\ files = <<>>
    /\ main = NoMain
    /\ raw_value = None
    /\ normalized = NotNormalized
    /\ report = NoReport
    /\ pc = "idle"
    /\ loader = "none"
    /\ records = <<>>
    /\ i = 0
    /\ total_inserted = 0
    /\ skipped = 0
    /\ store = [payroll |-> <<>>, budgets |-> <<>>]
    /\ attempted = <<>>
    /\ calls = <<>>
    /\ result = NoResult
    /\ runs = <<>>

\* a run begins: the records are read, and a run without records ends at once
Begin(l, recs, skip) ==
    /\ pc = "idle"
    /\ Len(runs) < MaxRuns
    /\ loader' = l
    /\ records' = recs
    /\ i' = 0
    /\ total_inserted' = 0
    /\ skipped' = skip
    /\ attempted' = <<>>
    /\ calls' = <<>>
    /\ IF recs = <<>>
       THEN /\ pc' = "idle"
            /\ result' = Returned(0, skip)
            /\ runs' = Append(runs, RunSummary(l, Returned(0, skip), <<>>, store[TableOf(l)]))
       ELSE /\ pc' = "loop"
            /\ result' = NoResult
            /\ runs' = runs
    /\ UNCHANGED <<norm_vars, report, roster, detail, budget_rows, store>>

\* a script starts and an exception ends it before its batch loop: it has no
\* records and makes no store call
BeginRaised(l) ==
    /\ pc = "idle"
    /\ Len(runs) < MaxRuns
    /\ loader' = l
    /\ records' = <<>>
    /\ i' = 0
    /\ total_inserted' = 0
    /\ skipped' = 0
    /\ attempted' = <<>>
    /\ calls' = <<>>
    /\ pc' = "idle"
    /\ result' = Raise
    /\ runs' = Append(runs, RunSummary(l, Raise, <<>>, store[TableOf(l)]))
    /\ UNCHANGED <<norm_vars, report, roster, detail, budget_rows, store>>

\* a run ends
End(res) ==
    /\ pc' = "idle"
    /\ result' = res
    /\ runs' = Append(runs, RunSummary(loader, res, calls', store'[TableOf(loader)]))

InLoop(l) == pc = "loop" /\ loader = l /\ i < Len(records)
AfterLoop(l) == pc = "loop" /\ loader = l /\ i >= Len(records)

\* import_payroll.py, main and import_payroll_file up to the batch loop
StartPayroll ==
    /\ \E y \in 1..Len(FISCAL_YEARS) :
          Begin("import_payroll", JoinPayroll(roster, detail, FiscalYearText(FISCAL_YEARS[y])), 0)
    /\ UNCHANGED main_vars

\* a batch loop that adds what the store reports and nothing else
PayrollInsertOkReportedOnly ==
    /\ InLoop("import_payroll")
    /\ \E data \in {0, Len(Batch)} :
          /\ total_inserted' = total_inserted + data
          /\ calls' = Append(calls, Call("insert", i, TRUE, data))
    /\ store' = [store EXCEPT !.payroll = Insert(@, Batch)]
    /\ attempted' = Append(attempted, Batch)
    /\ i' = i + BATCH_SIZE
    /\ UNCHANGED <<main_vars, norm_vars, report, roster, detail, budget_rows, pc, loader, records, skipped, result, runs>>

\* one pass of the batch loop whose insert succeeds; data is len(result.data)
PayrollInsertOk ==
    /\ InLoop("import_payroll")
    /\ \E data \in {0, Len(Batch)} :
          /\ total_inserted' = total_inserted + (IF data # 0 THEN data ELSE Len(Batch))
          /\ calls' = Append(calls, Call("insert", i, TRUE, data))
    /\ store' = [store EXCEPT !.payroll = Insert(@, Batch)]
    /\ attempted' = Append(attempted, Batch)
    /\ i' = i + BATCH_SIZE
    /\ UNCHANGED <<main_vars, norm_vars, report, roster, detail, budget_rows, pc, loader, records, skipped, result, runs>>

\* a batch loop with a transaction across slices: a failed insert takes the
\* rows of the earlier slices back
PayrollInsertFailRollback ==
    /\ InLoop("import_payroll")
    /\ skipped' = skipped + Len(Batch)
    /\ attempted' = Append(attempted, Batch)
    /\ calls' = Append(calls, Call("insert", i, FALSE, 0))
    /\ i' = i + BATCH_SIZE
    /\ store' = [store EXCEPT !.payroll = <<>>]
    /\ UNCHANGED <<main_vars, norm_vars, report, roster, detail, budget_rows, pc, loader, records, total_inserted,
                   result, runs>>

\* one pass of the batch loop whose insert raises
PayrollInsertFail ==
    /\ InLoop("import_payroll")
    /\ skipped' = skipped + Len(Batch)
    /\ attempted' = Append(attempted, Batch)
    /\ calls' = Append(calls, Call("insert", i, FALSE, 0))
    /\ i' = i + BATCH_SIZE
    /\ UNCHANGED <<main_vars, norm_vars, report, roster, detail, budget_rows, pc, loader, records, total_inserted,
                   store, result, runs>>

\* return total_inserted, skipped
PayrollReturn ==
    /\ AfterLoop("import_payroll")
    /\ UNCHANGED <<main_vars, norm_vars, report, roster, detail, budget_rows, loader, records, i, total_inserted,
                   skipped, store, attempted, calls>>
    /\ End(Returned(total_inserted, skipped))

\* import_fy2025_payroll.py, main up to the batch loop: an exception while the
\* frame is built ends it, and so does SystemExit when the URL or the key of
\* the store is not set in the environment
StartFy2025 ==
    /\ pc = "idle"
    /\ Len(runs) < MaxRuns
    /\ \E configured \in BOOLEAN :
          IF ~configured \/ Fy2025Raises(roster, detail)
          THEN BeginRaised("import_fy2025_payroll")
          ELSE Begin("import_fy2025_payroll", JoinFy2025(roster, detail), 0)
    /\ UNCHANGED main_vars

\* one pass of the batch loop whose upsert succeeds
Fy2025UpsertOk ==
    /\ InLoop("import_fy2025_payroll")
    /\ store' = [store EXCEPT !.payroll = Upsert(@, Batch, NaturalKeyFields)]
    /\ attempted' = Append(attempted, Batch)
    /\ calls' = Append(calls, Call("upsert", i, TRUE, Len(Batch)))
    /\ i' = i + BATCH_SIZE
    /\ UNCHANGED <<main_vars, norm_vars, report, roster, detail, budget_rows, pc, loader, records, total_inserted,
                   skipped, result, runs>>

\* the upsert raises: nothing catches it, main() ends
Fy2025UpsertFail ==
    /\ InLoop("import_fy2025_payroll")
    /\ attempted' = Append(attempted, Batch)
    /\ calls' = Append(calls, Call("upsert", i, FALSE, 0))
    /\ UNCHANGED <<main_vars, norm_vars, report, roster, detail, budget_rows, loader, records, i, total_inserted,
                   skipped, store>>
    /\ End(Raise)

\* "FY2025 import complete."
Fy2025Complete ==
    /\ AfterLoop("import_fy2025_payroll")
    /\ UNCHANGED <<main_vars, norm_vars, report, roster, detail, budget_rows, loader, records, i, total_inserted,
                   skipped, store, attempted, calls>>
    /\ End(Returned(0, 0))

\* import_budgets.py, import_budget_file up to the batch loop
StartBudgets ==
    /\ Begin("import_budgets", BudgetRecords(budget_rows), BudgetSkipped(budget_rows))
    /\ UNCHANGED main_vars

\* one pass whose upsert succeeds; data is len(result.data): nothing, the new
\* rows, or every row of the slice
BudgetUpsertOk ==
    /\ InLoop("import_budgets")
    /\ \E data \in {0, NewRows(store.budgets, Batch, BudgetKeyFields), Len(Batch)} :
          /\ total_inserted' = total_inserted + (IF data # 0 THEN data ELSE 0)
          /\ calls' = Append(calls, Call("upsert", i, TRUE, data))
    /\ store' = [store EXCEPT !.budgets = Upsert(@, Batch, BudgetKeyFields)]
    /\ attempted' = Append(attempted, Batch)
    /\ i' = i + BATCH_SIZE
    /\ UNCHANGED <<main_vars, norm_vars, report, roster, detail, budget_rows, pc, loader, records, skipped, result, runs>>

\* the upsert of a pass raises: the handler goes on to the fallback insert
BudgetUpsertFail ==
    /\ InLoop("import_budgets")
    /\ pc' = "fallback"
    /\ attempted' = Append(attempted, Batch)
    /\ calls' = Append(calls, Call("upsert", i, FALSE, 0))
    /\ UNCHANGED <<main_vars, norm_vars, report, roster, detail, budget_rows, loader, records, i, total_inserted,
                   skipped, store, result, runs>>

\* the handler of a failed upsert is at its insert
InFallback == pc = "fallback" /\ loader = "import_budgets"

\* the fallback insert of the pass succeeds
BudgetFallbackInsertOk ==
    /\ InFallback
    /\ \E data \in {0, Len(Batch)} :
          /\ total_inserted' = total_inserted + (IF data # 0 THEN data ELSE Len(Batch))
          /\ calls' = Append(calls, Call("insert", i, TRUE, data))
    /\ store' = [store EXCEPT !.budgets = Insert(@, Batch)]
    /\ pc' = "loop"
    /\ i' = i + BATCH_SIZE
    /\ UNCHANGED <<main_vars, norm_vars, report, roster, detail, budget_rows, loader, records, skipped, attempted,
                   result, runs>>

\* the fallback insert raises too: the handler re-raises, the outer
\* except Exception returns 0, skipped
BudgetBothFail ==
    /\ InFallback
    /\ calls' = Append(calls, Call("insert", i, FALSE, 0))
    /\ UNCHANGED <<main_vars, norm_vars, report, roster, detail, budget_rows, loader, records, i, total_inserted,
                   skipped, store, attempted>>
    /\ End(Returned(0, skipped))

\* return total_inserted, skipped
BudgetReturn ==
    /\ AfterLoop("import_budgets")
    /\ UNCHANGED <<main_vars, norm_vars, report, roster, detail, budget_rows, loader, records, i, total_inserted,
                   skipped, store, attempted, calls>>
    /\ End(Returned(total_inserted, skipped))

\* the caller ends the process at a store call of a batch loop
Abort ==
    /\ pc \in {"loop", "fallback"}
    /\ UNCHANGED <<main_vars, norm_vars, report, roster, detail, budget_rows, loader, records, i, total_inserted,
                   skipped, store, attempted, calls>>
    /\ End(Aborted)

-----------------------------------------------------------------------------
(* The join specification: the two joins applied to every pair of sheets.   *)

Init ==
    /\ roster \in SeqsUpTo(HrRows, MaxRoster)
    /\ detail \in DetailSheets
    /\ budget_rows = <<>>
    /\ InitCommon

Next == StartPayroll \/ StartFy2025

Spec == Init /\ [][Next]_vars

(* The load specification: runs of the three scripts against one store.     *)

InitLoad ==
    /\ \/ /\ roster \in SeqsUpTo(LoadHrRows, MaxLoadRows)
          /\ detail \in SeqsUpTo(LoadEarningsRows, 1)
          /\ budget_rows = <<>>
       \/ /\ roster = <<>>
          /\ detail = <<>>
          /\ budget_rows \in SeqsUpTo(LoadBudgetRows, MaxLoadRows)
    /\ InitCommon

NextLoad ==
    \/ StartPayroll
    \/ PayrollInsertOk
    \/ PayrollInsertFail
    \/ PayrollReturn
    \/ StartFy2025
    \/ Fy2025UpsertOk
    \/ Fy2025UpsertFail
    \/ Fy2025Complete
    \/ StartBudgets
    \/ BudgetUpsertOk
    \/ BudgetUpsertFail
    \/ BudgetFallbackInsertOk
    \/ BudgetBothFail
    \/ BudgetReturn
    \/ Abort

SpecLoad == InitLoad /\ [][NextLoad]_vars

-----------------------------------------------------------------------------
(* main() of import_payroll.py and of import_budgets.py: one input file per  *)
(* configured year.                                                           *)

\* longest sheet (HR rows, CSV rows) of a file of main()
MaxFileRows == 2

\* pattern in name
Contains(pattern, name) ==
    \E k \in 0..(Len(name) - Len(pattern)) : SubSeq(name, k + 1, k + Len(pattern)) = pattern

HR_INFO == <<"H", "R", " ", "I", "N", "F", "O">>
EARNINGS == <<"E", "A", "R", "N", "I", "N", "G", "S">>
ACTIVE_ON_JUNE_30 == <<"A", "C", "T", "I", "V", "E", "_", "O", "N", "_", "J", "U", "N", "E", "_", "3", "0">>

\* find_sheet_by_pattern: the first sheet name that contains the pattern,
\* both in lower case, or None
RECURSIVE find_sheet_by_pattern(_, _)
find_sheet_by_pattern(sheetnames, pattern) ==
    IF sheetnames = <<>> THEN None
    ELSE IF Contains(LowerText(pattern), LowerText(Head(sheetnames))) THEN Str(Head(sheetnames))
    ELSE find_sheet_by_pattern(Tail(sheetnames), pattern)

\* the loop over the header row of get_active_column_name
RECURSIVE FirstActiveColumn(_)
FirstActiveColumn(header_row) ==
    IF header_row = <<>> THEN None
    ELSE IF Truthy(Head(header_row))
            /\ Contains(ACTIVE_ON_JUNE_30, UpperText(StrOf(Head(header_row))))
         THEN Head(header_row)
    ELSE FirstActiveColumn(Tail(header_row))

\* get_active_column_name: None without an HR INFO sheet
get_active_column_name(sheetnames, header_row) ==
    IF find_sheet_by_pattern(sheetnames, HR_INFO) = None THEN None
    ELSE FirstActiveColumn(header_row)

\* the configured years of import_budgets.py
YEARS == <<2020, 2021, 2022, 2023, 2024, 2025, 2026>>
YearsOf(script) == IF script = "import_payroll" THEN FISCAL_YEARS ELSE YEARS

\* sheet names and header cells of the input files
N_HR == <<"F", "Y", "2", "0", " ", "H", "R", " ", "I", "N", "F", "O">>
N_hr == <<"F", "y", "2", "0", " ", "h", "r", " ", "i", "n", "f", "o">>
N_EARN == <<"F", "Y", "2", "0", " ", "E", "a", "r", "n", "i", "n", "g", "s">>
N_NOTES == <<"N", "o", "t", "e", "s">>
H_ID == Str(<<"T", "E", "M", "P", "O", "R", "A", "R", "Y", "_", "I", "D">>)
H_ACTIVE == Str(<<"A", "c", "t", "i", "v", "e", "_", "O", "n", "_", "J", "u", "n", "e", "_", "3", "0", "_", "2", "0", "2", "0">>)

\* a file that is not there, and a file that cannot be opened.  A file that
\* opens has the rows its reader yields; read_error tells that the reader
\* raises after them (a byte that is no UTF-8, a malformed line) instead of
\* ending.
MissingFile == [exists |-> FALSE, opens |-> FALSE, read_error |-> FALSE, sheetnames |-> <<>>,
                header_row |-> <<>>, hr_rows |-> <<>>, earnings_rows |-> <<>>, rows |-> <<>>]
UnreadableFile == [MissingFile EXCEPT !.exists = TRUE]

\* the workbooks of import_payroll.py: with both sheets (in either case),
\* without one of them, with and without the ACTIVE_ON_JUNE_30 column
Workbooks ==
    {[exists |-> TRUE, opens |-> TRUE, read_error |-> FALSE, sheetnames |-> s, header_row |-> h,
      hr_rows |-> r, earnings_rows |-> e, rows |-> <<>>] :
        s \in {<<N_NOTES, N_HR, N_EARN>>, <<N_hr, N_EARN>>, <<N_NOTES, N_EARN>>, <<N_HR>>},
        h \in {<<H_ID, H_ACTIVE>>, <<H_ID>>},
        r \in SeqsUpTo(LoadHrRows, MaxFileRows),
        e \in SeqsUpTo(LoadEarningsRows, 1)}
\* the CSV files of import_budgets.py, read to their end or up to an error
CsvFiles ==
    {[exists |-> TRUE, opens |-> TRUE, read_error |-> x, sheetnames |-> <<>>, header_row |-> <<>>,
      hr_rows |-> <<>>, earnings_rows |-> <<>>, rows |-> r] :
        r \in SeqsUpTo(LoadBudgetRows, MaxFileRows), x \in BOOLEAN}
\* the files a script may find in the place of one year
FilesOf(script) ==
    {UnreadableFile} \cup (IF script = "import_payroll" THEN Workbooks ELSE CsvFiles)
\* the files of the configured years: the years in present have a file
YearFiles(script, present, file) ==
    [y \in 1..Len(YearsOf(script)) |-> IF y \in present THEN file[y] ELSE MissingFile]

\* what import_payroll_file resolves before it reads a row
Resolved(hr_sheet_name, earnings_sheet_name, active_col_name) ==
    [hr_sheet_name |-> hr_sheet_name, earnings_sheet_name |-> earnings_sheet_name,
     active_col_name |-> active_col_name]
Unresolved == Resolved(None, None, None)
ResolveWorkbook(f) ==
    IF ~f.opens THEN Unresolved
    ELSE Resolved(find_sheet_by_pattern(f.sheetnames, HR_INFO),
                  find_sheet_by_pattern(f.sheetnames, EARNINGS),
                  get_active_column_name(f.sheetnames, f.header_row))

\* the records import_payroll_file hands to its batch loop: none when the
\* workbook cannot be opened or a sheet is not found
RecordsOfResolved(res, f, fiscal_year) ==
    IF res.hr_sheet_name = None \/ res.earnings_sheet_name = None THEN <<>>
    ELSE JoinPayroll(f.hr_rows, f.earnings_rows, FiscalYearText(fiscal_year))
PayrollFileRecords(f, fiscal_year) == RecordsOfResolved(ResolveWorkbook(f), f, fiscal_year)

\* the file main() is at
ThisFile == files[main.year]
AtNextFile(script) ==
    /\ main.script = script
    /\ main.phase = "next"
    /\ main.year <= Len(files)

\* what main() keeps of a year it is through with
Seen(kind, inserted, skip) == [kind |-> kind, inserted |-> inserted, skipped |-> skip]

\* `if not file_path.exists(): continue`
MainSkipMissing ==
    /\ main.phase = "next"
    /\ main.year <= Len(files)
    /\ ~ThisFile.exists
    /\ main' = [main EXCEPT !.year = @ + 1, !.seen = Append(@, Seen("missing", 0, 0)),
                            !.resolved = Unresolved]
    /\ UNCHANGED <<files, norm_vars, report, roster, detail, budget_rows, pc, loader, records, i,
                   total_inserted, skipped, store, attempted, calls, result, runs>>

\* main() of import_payroll.py calls import_payroll_file, which runs up to its
\* batch loop
MainPayrollFile ==
    /\ AtNextFile("import_payroll")
    /\ ThisFile.exists
    /\ Begin("import_payroll", PayrollFileRecords(ThisFile, FISCAL_YEARS[main.year]), 0)
    /\ main' = [main EXCEPT !.phase = "file", !.resolved = ResolveWorkbook(ThisFile)]
    /\ UNCHANGED files

\* main() of import_budgets.py calls import_budget_file, which runs up to its
\* batch loop.  An exception of open() or of the reader is caught by `except
\* Exception`, which returns 0 and the rows skipped until then: none when the
\* file did not open, those of the rows read when the reader raised.
MainBudgetFile ==
    /\ AtNextFile("import_budgets")
    /\ ThisFile.exists
    /\ CASE ~ThisFile.opens -> Begin("import_budgets", <<>>, 0)
         [] ThisFile.opens /\ ThisFile.read_error ->
               Begin("import_budgets", <<>>, BudgetSkipped(ThisFile.rows))
         [] OTHER ->
               Begin("import_budgets", BudgetRecords(ThisFile.rows), BudgetSkipped(ThisFile.rows))
    /\ main' = [main EXCEPT !.phase = "file", !.resolved = Unresolved]
    /\ UNCHANGED files

\* a main() that gives up at the first file that brought nothing in
MainAddCountsOrStop ==
    /\ main.phase = "file"
    /\ pc = "idle"
    /\ result.kind = "returned"
    /\ main' = [main EXCEPT !.phase = IF result.inserted = 0 THEN "done" ELSE "next",
                            !.year = @ + 1,
                            !.total_inserted = @ + result.inserted,
                            !.total_skipped = @ + result.skipped,
                            !.seen = Append(@, Seen("returned", result.inserted, result.skipped))]
    /\ UNCHANGED <<files, norm_vars, report, roster, detail, budget_rows, pc, loader, records, i,
                   total_inserted, skipped, store, attempted, calls, result, runs>>

\* `total_inserted += inserted; total_skipped += skipped`, and the next year
MainAddCounts ==
    /\ main.phase = "file"
    /\ pc = "idle"
    /\ result.kind = "returned"
    /\ main' = [main EXCEPT !.phase = "next", !.year = @ + 1,
                            !.total_inserted = @ + result.inserted,
                            !.total_skipped = @ + result.skipped,
                            !.seen = Append(@, Seen("returned", result.inserted, result.skipped))]
    /\ UNCHANGED <<files, norm_vars, report, roster, detail, budget_rows, pc, loader, records, i,
                   total_inserted, skipped, store, attempted, calls, result, runs>>

\* the loop over the years is through: the summary is printed
MainSummary ==
    /\ main.phase = "next"
    /\ main.year > Len(files)
    /\ main' = [main EXCEPT !.phase = "done"]
    /\ UNCHANGED <<files, norm_vars, report, roster, detail, budget_rows, pc, loader, records, i,
                   total_inserted, skipped, store, attempted, calls, result, runs>>

\* main() of either script before its loop; at most MaxRuns of the configured
\* years have a file (each file is one run of the loader), the others have none
InitMain ==
    /\ \E script \in {"import_payroll", "import_budgets"} :
          /\ \E present \in SUBSET (1..Len(YearsOf(script))) :
                /\ Cardinality(present) <= MaxRuns
                /\ \E file \in [present -> FilesOf(script)] :
                      files = YearFiles(script, present, file)
          /\ main = [script |-> script, phase |-> "next", year |-> 1, total_inserted |-> 0,
                     total_skipped |-> 0, seen |-> <<>>, resolved |-> Unresolved]
    /\ roster = <<>>
    /\ detail = <<>>
    /\ budget_rows = <<>>
    /\ raw_value = None
    /\ normalized = NotNormalized
    /\ report = NoReport
    /\ pc = "idle"
    /\ loader = "none"
    /\ records = <<>>
    /\ i = 0
    /\ total_inserted = 0
    /\ skipped = 0
    /\ store = [payroll |-> <<>>, budgets |-> <<>>]
    /\ attempted = <<>>
    /\ calls = <<>>
    /\ result = NoResult
    /\ runs = <<>>

NextMain ==
    \/ MainSkipMissing
    \/ MainPayrollFile
    \/ MainBudgetFile
    \/ MainAddCounts
    \/ MainSummary
    \/ PayrollInsertOk
    \/ PayrollInsertFail
    \/ PayrollReturn
    \/ BudgetUpsertOk
    \/ BudgetUpsertFail
    \/ BudgetFallbackInsertOk
    \/ BudgetBothFail
    \/ BudgetReturn
    \/ Abort

SpecMain == InitMain /\ [][NextMain]_vars

-----------------------------------------------------------------------------
(* The field normalizers called on their own, one raw cell value at a time.  *)

\* texts of cells: blanks, the dash, numeric texts, texts that are no number,
\* whitespace other than the space (tab and newline, the vertical tab, the
\* file separator, the next-line character, the ogham space), the spellings
\* float() reads beyond plain decimals, a text read_excel takes for a
\* missing value, one it takes for a boolean, and the word NAN, which float()
\* reads and read_excel keeps
RawTexts ==
    { <<>>,
      <<" ">>,
      <<" ", " ">>,
      <<"-">>,
      <<" ", "-", " ">>,
      <<"1", "2">>,
      <<"1", "2", ".", "0">>,
      <<" ", "1", ",", "2", "3", "4", ".", "5", "0", " ">>,
      <<"1", ",", "2", "3", "4", ".", "5", "0">>,
      <<"a", "b", "c">>,
      <<"0">>,
      <<"-", "5">>,
      <<"3", ".", "7", "5">>,
      <<" ", "x", " ">>,
      <<"\t">>,
      <<"\t", "1", "2", "\n">>,
      <<"1", "e", "3">>,
      <<"1", "_", "0", "0", "0">>,
      <<"I", "n", "f", "i", "n", "i", "t", "y">>,
      <<"-", "i", "n", "f">>,
      <<"N", "A">>,
      <<"T", "r", "u", "e">>,
      <<"N", "A", "N">>,
      <<"", "1", "2">>,
      <<"", "1", "2", "">>,
      <<" ">> }

\* raw cell values: None, texts, integers, finite floats, NaN, an infinity,
\* another type
RawValues ==
    {None, NaN, Inf, Other, Int_(0), Int_(12), Int_(-3), Flt(0), Flt(1250), Flt(-375)}
        \cup {Str(t) : t \in RawTexts}

\* a normalizer is called on raw_value and returns out, or raises
Normalize(fn, out) ==
    /\ normalized.fn = "none"
    /\ normalized' = [fn |-> fn, out |-> out, times |-> 1]
    /\ UNCHANGED <<raw_value, main_vars, report, roster, detail, budget_rows, pc, loader, records, i,
                   total_inserted, skipped, store, attempted, calls, result, runs>>

\* a cell of a CSV row: csv.DictReader yields a str, or None for a short row
IsCsvCell(value) == value.tag \in {"null", "str"}

\* a wage field of parse_earnings_row
Wage(value) == OrZero(parse_float(value))
\* a wage column of import_fy2025_payroll.py, from the cell as read
Fy25WageColumn(cells) == Fy25Wage(ReadExcelColumn(cells), ColumnDtype(cells), 1)
Fy25WageCell(value) ==
    IF IsRaised(ReadExcelCell(value)) THEN Raised
    ELSE Fy25WageColumn(<<ReadExcelCell(value)>>)

NormParseInteger == Normalize("parse_integer", parse_integer(raw_value))
NormParseFloat == Normalize("parse_float", parse_float(raw_value))
NormParseText == Normalize("parse_text", parse_text(raw_value))
NormParseLastHireDate == Normalize("parse_last_hire_date", parse_last_hire_date(raw_value))
NormWage == Normalize("wage", Wage(raw_value))
NormFy25Wage == Normalize("fy2025_wage", Fy25WageCell(raw_value))
\* last_hire_safe of import_fy2025_payroll.py, applied to the cell as read
LastHireSafeCell(value) ==
    IF IsRaised(ReadExcelCell(value)) THEN Raised
    ELSE last_hire_safe(ReadExcelColumn(<<ReadExcelCell(value)>>)[1])
NormLastHireSafe == Normalize("last_hire_safe", LastHireSafeCell(raw_value))
NormParseDecimal == IsCsvCell(raw_value) /\ Normalize("parse_decimal", parse_decimal(raw_value))
NormBudgetsParseInteger ==
    IsCsvCell(raw_value) /\ Normalize("budgets_parse_integer", budgets_parse_integer(raw_value))
NormNormalizeText == IsCsvCell(raw_value) /\ Normalize("normalize_text", normalize_text(raw_value))

\* the normalizer of a name
Apply(fn, value) ==
    CASE fn = "parse_integer" -> parse_integer(value)
      [] fn = "parse_float" -> parse_float(value)
      [] fn = "parse_text" -> parse_text(value)
      [] fn = "parse_last_hire_date" -> parse_last_hire_date(value)
      [] fn = "wage" -> Wage(value)
      [] fn = "fy2025_wage" -> Fy25WageCell(value)
      [] fn = "last_hire_safe" -> LastHireSafeCell(value)
      [] fn = "parse_decimal" -> parse_decimal(value)
      [] fn = "budgets_parse_integer" -> budgets_parse_integer(value)
      [] fn = "normalize_text" -> normalize_text(value)

\* the normalizer is called again, on the value it returned
NormalizeAgain ==
    /\ normalized.times = 1
    /\ normalized.out # Raised
    /\ raw_value' = normalized.out
    /\ normalized' = [normalized EXCEPT !.out = Apply(normalized.fn, normalized.out), !.times = 2]
    /\ UNCHANGED <<main_vars, report, roster, detail, budget_rows, pc, loader, records, i,
                   total_inserted, skipped, store, attempted, calls, result, runs>>

InitNorm ==
    /\ raw_value \in RawValues
    /\ normalized = NotNormalized
    /\ report = NoReport
    /\ files = <<>>
    /\ main = NoMain
    /\ roster = <<>>
    /\ detail = <<>>
    /\ budget_rows = <<>>
    /\ pc = "idle"
    /\ loader = "none"
    /\ records = <<>>
    /\ i = 0
    /\ total_inserted = 0
    /\ skipped = 0
    /\ store = [payroll |-> <<>>, budgets |-> <<>>]
    /\ attempted = <<>>
    /\ calls = <<>>
    /\ result = NoResult
    /\ runs = <<>>

NextNorm ==
    \/ NormParseInteger
    \/ NormParseFloat
    \/ NormParseText
    \/ NormParseLastHireDate
    \/ NormWage
    \/ NormFy25Wage
    \/ NormLastHireSafe
    \/ NormParseDecimal
    \/ NormBudgetsParseInteger
    \/ NormNormalizeText
    \/ NormalizeAgain

SpecNorm == InitNorm /\ [][NextNorm]_vars

-----------------------------------------------------------------------------
(* Sheet resolution, as each script that opens a workbook does it.           *)

MaxSheets == 3

N_EARNINGS == <<"F", "Y", "2", "5", " ", "E", "A", "R", "N", "I", "N", "G", "S">>

\* next((s for s in xl.sheet_names if pattern in s), None) of
\* import_fy2025_payroll.py: the names are compared as they are
RECURSIVE Fy25FirstSheet(_, _)
Fy25FirstSheet(sheet_names, pattern) ==
    IF sheet_names = <<>> THEN None
    ELSE IF Contains(pattern, Head(sheet_names)) THEN Str(Head(sheet_names))
    ELSE Fy25FirstSheet(Tail(sheet_names), pattern)

\* what import_fy2025_payroll.py resolves: the two sheets, and the first
\* column whose upper-cased name contains ACTIVE_ON_JUNE_30
Fy25ResolveWorkbook(f) ==
    Resolved(Fy25FirstSheet(f.sheetnames, HR_INFO), Fy25FirstSheet(f.sheetnames, EARNINGS),
             FirstActiveColumn(f.header_row))

\* what fy2025_payroll_inspection.py resolves with its find_sheet (the code of
\* find_sheet_by_pattern); it looks for no active column
InspectionResolveWorkbook(f) ==
    Resolved(find_sheet_by_pattern(f.sheetnames, HR_INFO),
             find_sheet_by_pattern(f.sheetnames, EARNINGS), None)

\* the workbooks whose sheets are resolved: up to MaxSheets sheets, in any order
SheetWorkbooks ==
    {[exists |-> TRUE, opens |-> TRUE, read_error |-> FALSE, sheetnames |-> s, header_row |-> h,
      hr_rows |-> <<>>, earnings_rows |-> <<>>, rows |-> <<>>] :
        s \in SeqsUpTo({N_NOTES, N_HR, N_hr, N_EARN, N_EARNINGS}, MaxSheets),
        h \in {<<H_ID, H_ACTIVE>>, <<H_ID>>}}

\* a script opens the workbook and resolves its sheets
ResolveBy(script, res) ==
    /\ main.script = "none"
    /\ main' = [main EXCEPT !.script = script, !.phase = "resolved", !.resolved = res]
    /\ UNCHANGED <<files, norm_vars, report, roster, detail, budget_rows, pc, loader, records, i,
                   total_inserted, skipped, store, attempted, calls, result, runs>>

ResolvePayroll == ResolveBy("import_payroll", ResolveWorkbook(files[1]))
ResolveFy2025 == ResolveBy("import_fy2025_payroll", Fy25ResolveWorkbook(files[1]))
\* assess_payroll_files.py has its own copies of find_sheet_by_pattern and of
\* the active column search, with the code of import_payroll.py
ResolveAssess == ResolveBy("assess_payroll_files", ResolveWorkbook(files[1]))
ResolveInspection == ResolveBy("fy2025_payroll_inspection", InspectionResolveWorkbook(files[1]))

InitResolve ==
    /\ \E f \in SheetWorkbooks : files = <<f>>
    /\ main = NoMain
    /\ roster = <<>>
    /\ detail = <<>>
    /\ budget_rows = <<>>
    /\ raw_value = None
    /\ normalized = NotNormalized
    /\ report = NoReport
    /\ pc = "idle"
    /\ loader = "none"
    /\ records = <<>>
    /\ i = 0
    /\ total_inserted = 0
    /\ skipped = 0
    /\ store = [payroll |-> <<>>, budgets |-> <<>>]
    /\ attempted = <<>>
    /\ calls = <<>>
    /\ result = NoResult
    /\ runs = <<>>

NextResolve == ResolvePayroll \/ ResolveFy2025 \/ ResolveAssess \/ ResolveInspection

SpecResolve == InitResolve /\ [][NextResolve]_vars

-----------------------------------------------------------------------------
(* fy2025_payroll_inspection.py: the uniqueness check of its step 5.         *)

MaxAuditRows == 3

\* an HR INFO row of which the script reads TEMPORARY_ID and RECORD_NBR
AuditRow(id, nbr) == HrRow(id, nbr, None, None, None)

\* rows with the same pair, with the pair written differently (untrimmed, the
\* number as a float, the number as text), with another pair, without one
\* of the two cells, and with a record number that is an infinity, the text
\* inf, or a NaN
AuditHrRows ==
    { AuditRow(Str(T_A1), Int_(1)),
      AuditRow(Str(<<" ", "A", "1", " ">>), Int_(1)),
      AuditRow(Str(T_A1), Flt(100)),
      AuditRow(Str(T_A1), Str(<<"1">>)),
      AuditRow(Str(T_A1), Int_(2)),
      AuditRow(Str(T_B2), Int_(1)),
      AuditRow(None, Int_(1)),
      AuditRow(Str(T_A1), None),
      AuditRow(Str(T_A1), Inf),
      AuditRow(Str(T_A1), Str(<<"i", "n", "f">>)),
      AuditRow(Str(T_A1), NaN) }

\* `rn if isinstance(rn, (int, float)) else str(rn)`, of the cell of row r: a
\* number stays a number, as Python compares and hashes it (1 == 1.0 == True,
\* inf == inf), anything else is its text.  A NaN is a number equal to no
\* other, the NaN of another cell included: its key keeps the row it is in.
AuditRecordNbr(rn, r) ==
    CASE rn.tag \in {"int", "bool"} -> Flt(rn.n * 100)
      [] rn.tag \in {"float", "inf"} -> rn
      [] rn.tag = "nan" -> [tag |-> "nan", s |-> <<>>, n |-> r]
      [] OTHER -> Str(StrOf(rn))

\* (str(tid).strip(), rn ...) of row r
AuditKey(row, r) ==
    <<Str(Strip(StrOf(row.TEMPORARY_ID))), AuditRecordNbr(row.RECORD_NBR, r)>>

\* keys of every row, with or without the two cells
AuditAppendKeyAlways(keys, row, r) == Append(keys, AuditKey(row, r))

\* `if tid is not None and rn is not None: keys.append(...)`
AuditAppendKey(keys, row, r) ==
    IF row.TEMPORARY_ID # None /\ row.RECORD_NBR # None THEN Append(keys, AuditKey(row, r))
    ELSE keys

\* the loop over the HR INFO rows
RECURSIVE AuditKeys(_)
AuditKeys(rows) ==
    IF rows = <<>> THEN <<>>
    ELSE AuditAppendKey(AuditKeys(SubSeq(rows, 1, Len(rows) - 1)), rows[Len(rows)], Len(rows))

\* len(keys) == len(set(keys)): "UNIQUE", else the warning
AuditReport(keys) ==
    [done |-> TRUE, keys |-> keys,
     unique |-> Len(keys) = Cardinality({keys[k] : k \in 1..Len(keys)})]

\* main() of fy2025_payroll_inspection.py on the rows of the HR INFO sheet; it
\* has no store client
Inspect ==
    /\ ~report.done
    /\ report' = AuditReport(AuditKeys(roster))
    /\ UNCHANGED <<main_vars, norm_vars, roster, detail, budget_rows, pc, loader, records, i,
                   total_inserted, skipped, store, attempted, calls, result, runs>>

InitAudit ==
    /\ roster \in SeqsUpTo(AuditHrRows, MaxAuditRows)
    /\ detail = <<>>
    /\ budget_rows = <<>>
    /\ InitCommon

NextAudit == Inspect

SpecAudit == InitAudit /\ [][NextAudit]_vars

-----------------------------------------------------------------------------
(* Properties of the join (specification Spec). *)

\* a script has read the sheets and built its records list
Joined == loader # "none" /\ result # Raise

\* the Identifier of a raw row: its TEMPORARY_ID as normalized text
Identifier(row) == parse_text(row.TEMPORARY_ID)
\* the roster rows whose Identifier is neither null nor empty
ValidRows(rows) == {k \in 1..Len(rows) : Truthy(Identifier(rows[k]))}

Wages(rec) == <<rec.regular_wages, rec.overtime_wages, rec.other_wages, rec.total_wages>>
ZeroWages == <<Flt(0), Flt(0), Flt(0), Flt(0)>>
RosterPart(rec) ==
    [f \in {"temporary_id", "record_nbr", "employee_name", "last_hire_date",
            "compensation_rate"} |-> rec[f]]

MaxOf(S) == CHOOSE k \in S : \A j \in S : j <= k
MinOf(S) == CHOOSE k \in S : \A j \in S : k <= j

\* the detail rows that share an Identifier, as import_payroll.py compares
\* them (trimmed) and as the pandas merge compares them: the cells of the two
\* TEMPORARY_ID columns as read_excel returns them, each with the type of its
\* column
SharingPayroll(temp_id) == {k \in 1..Len(detail) : Identifier(detail[k]) = temp_id}
ColumnAsRead(rows, c) == ReadExcelColumn(Column(rows, c))
SharingFy2025(r) ==
    {k \in 1..Len(detail) :
        KeyEq(ColumnAsRead(detail, "TEMPORARY_ID")[k], ColumnAsRead(roster, "TEMPORARY_ID")[r])}
\* the wage fields a detail row normalizes to in each script
WagesPayroll(row) == Wages(parse_earnings_row(row))
Fy25WageOf(k, c) == AsNumber(FillNa0(ToNumeric(ColumnAsRead(detail, c)[k])))
WagesFy2025(k) ==
    <<Fy25WageOf(k, "REGULAR_WAGES"), Fy25WageOf(k, "OVERTIME_WAGES"),
      Fy25WageOf(k, "OTHER_WAGES"), Fy25WageOf(k, "TOTAL_WAGES")>>
\* the wages as floats: an integer column holds 7 where a float column holds 7.0
NumWages(rec) ==
    <<AsNumber(rec.regular_wages), AsNumber(rec.overtime_wages),
      AsNumber(rec.other_wages), AsNumber(rec.total_wages)>>

\* C1: the join emits exactly one combined record per roster row whose
\* Identifier is neither null nor empty: it drops none, duplicates none and
\* adds none.
C1_JoinCardinality == Joined => Len(records) = Cardinality(ValidRows(roster))

\* C2 as claimed: in every script that joins, when several detail rows share
\* the Identifier of a combined record, the record's wage fields are those of
\* the last such detail row.
C2_LastDetailWinsEverywhere ==
    /\ loader = "import_payroll" =>
          \A r \in 1..Len(records) :
              Cardinality(SharingPayroll(records[r].temporary_id)) >= 2 =>
                  Wages(records[r]) =
                      WagesPayroll(detail[MaxOf(SharingPayroll(records[r].temporary_id))])
    /\ loader = "import_fy2025_payroll" =>
          \A r \in 1..Len(records) :
              Cardinality(SharingFy2025(r)) >= 2 =>
                  NumWages(records[r]) = WagesFy2025(MaxOf(SharingFy2025(r)))

\* C2 amended: import_payroll.py takes the wage fields of the last detail row
\* that shares the Identifier (compared after trimming); import_fy2025_payroll.py
\* takes those of the first detail row that shares it (compared as the merge
\* compares the two columns read_excel returns).
C2_LastWinsPayrollFirstWinsFy2025 ==
    /\ loader = "import_payroll" =>
          \A r \in 1..Len(records) :
              Cardinality(SharingPayroll(records[r].temporary_id)) >= 2 =>
                  Wages(records[r]) =
                      WagesPayroll(detail[MaxOf(SharingPayroll(records[r].temporary_id))])
    /\ loader = "import_fy2025_payroll" =>
          \A r \in 1..Len(records) :
              Cardinality(SharingFy2025(r)) >= 2 =>
                  NumWages(records[r]) = WagesFy2025(MinOf(SharingFy2025(r)))

\* C2 witness: import_fy2025_payroll.py has joined a record whose Identifier
\* two detail rows with different wages share, and the record has the wages
\* of the first; import_payroll.py joins the same two sheets into a record
\* with the wages of the second
C2_Witness ==
    /\ loader = "import_fy2025_payroll"
    /\ Joined
    /\ Len(detail) = 2
    /\ \E r \in 1..Len(records) :
          /\ SharingFy2025(r) = {1, 2}
          /\ WagesFy2025(1) # WagesFy2025(2)
          /\ NumWages(records[r]) = WagesFy2025(1)
    /\ \E q \in 1..Len(JoinPayroll(roster, detail, FiscalYearText(FISCAL_YEARS[1]))) :
          /\ SharingPayroll(JoinPayroll(roster, detail, FiscalYearText(FISCAL_YEARS[1]))[q].temporary_id)
                = {1, 2}
          /\ WagesPayroll(detail[1]) # WagesPayroll(detail[2])
          /\ Wages(JoinPayroll(roster, detail, FiscalYearText(FISCAL_YEARS[1]))[q])
                = WagesPayroll(detail[2])

\* the valid roster rows that parse_hr_row turns into a record
ParsedRows(rows) == {k \in ValidRows(rows) : parse_hr_row(rows[k]) # None}

\* C3: when k >= 2 valid roster rows (that parse) have the same Identifier, the
\* join of import_payroll.py emits k combined records with that Identifier, one
\* with the roster fields of each occurrence, all with the same wage fields.
C3_DuplicateRosterRowsKept ==
    loader = "import_payroll" =>
        \A k \in ParsedRows(roster) :
            LET same == {j \in ParsedRows(roster) : Identifier(roster[j]) = Identifier(roster[k])}
                out == {r \in 1..Len(records) : records[r].temporary_id = Identifier(roster[k])}
            IN Cardinality(same) >= 2 =>
                  /\ Cardinality(out) = Cardinality(same)
                  /\ \E r \in out : RosterPart(records[r]) = HrRecord(roster[k])
                  /\ \A r1, r2 \in out : Wages(records[r1]) = Wages(records[r2])

\* C4: for every valid roster row (that parses) the join of import_payroll.py
\* holds a combined record with the row's roster fields unchanged, whose wage
\* fields are those of the one detail row with its Identifier, or 0.0 when no
\* detail row has it.
C4_JoinCorrectness ==
    loader = "import_payroll" =>
        \A k \in ParsedRows(roster) :
            \E r \in 1..Len(records) :
                /\ RosterPart(records[r]) = HrRecord(roster[k])
                /\ Cardinality(SharingPayroll(Identifier(roster[k]))) = 1 =>
                      Wages(records[r]) =
                          WagesPayroll(detail[MinOf(SharingPayroll(Identifier(roster[k])))])
                /\ SharingPayroll(Identifier(roster[k])) = {} =>
                      Wages(records[r]) = ZeroWages

\* C11: no combined record comes from a roster row whose Identifier is null,
\* empty, whitespace-only or the dash placeholder: every record of a join has
\* an Identifier that normalizes to a non-empty text.
C11_BlankIdentifierExcluded ==
    Joined => \A r \in 1..Len(records) : Truthy(parse_text(records[r].temporary_id))

\* the roster rows a combined record can come from: those that parse to its
\* roster fields
SourceRows(rec) == {k \in ParsedRows(roster) : HrRecord(roster[k]) = RosterPart(rec)}

\* C12: the combined records of import_payroll.py are in the order of the
\* roster rows they come from: of two records, the earlier one comes from an
\* earlier roster row.
C12_StableOrder ==
    loader = "import_payroll" =>
        \A a, b \in 1..Len(records) :
            a < b => \E k \in SourceRows(records[a]), l \in SourceRows(records[b]) : k < l

\* the fields of the target schema that the model keeps
SchemaFields ==
    {"temporary_id", "record_nbr", "employee_name", "last_hire_date", "compensation_rate",
     "fiscal_year", "regular_wages", "overtime_wages", "other_wages", "total_wages"}
\* a raw artifact: the empty string, a whitespace-only string, the dash
IsArtifact(value) ==
    value.tag = "str" /\ (Strip(value.s) = <<>> \/ Strip(value.s) = <<"-">>)
\* a genuine cell value: neither null, NaN nor an artifact
IsGenuine(value) == value # None /\ value # NaN /\ ~IsArtifact(value)
\* the roster rows a record was made from: by content in import_payroll.py,
\* by position in import_fy2025_payroll.py (the left merge keeps every row)
RosterRowsOf(r) ==
    IF loader = "import_payroll" THEN SourceRows(records[r])
    ELSE {k \in 1..Len(roster) : k = r}

\* C22: every record handed to the join's output has an entry for every field
\* of the schema, no field holds an empty string, a whitespace-only string or
\* the dash as a value, and a genuine cell value (such as the number 0 in a
\* text column) is not turned into null.
C22_NormalizedRecordInvariant ==
    Joined =>
        \A r \in 1..Len(records) :
            /\ DOMAIN records[r] = SchemaFields
            /\ \A f \in SchemaFields : ~IsArtifact(records[r][f])
            /\ \A k \in RosterRowsOf(r) :
                  IsGenuine(roster[k].EMPLOYEE_NAME) => records[r].employee_name # None

\* the part of C22 that import_payroll.py keeps: all the fields, no artifact
C22_PayrollNoArtifact ==
    loader = "import_payroll" =>
        \A r \in 1..Len(records) :
            /\ DOMAIN records[r] = SchemaFields
            /\ \A f \in SchemaFields : ~IsArtifact(records[r][f])

\* C27: a roster row with a valid Identifier always produces a combined
\* record, whatever its other cells hold (a NaN number, a text that is no
\* number): the unparsable field is null or its default, the row is not lost.
C27_ParseAnomalyKeepsRow ==
    Joined =>
        \A k \in ValidRows(roster) :
            \E r \in 1..Len(records) :
                parse_text(records[r].temporary_id) = Identifier(roster[k])

\* a row is lost only when one of its normalizers raises
C27_RowLostOnlyWhenNormalizerRaises ==
    loader = "import_payroll" =>
        \A k \in ValidRows(roster) :
            \/ \E r \in 1..Len(records) : records[r].temporary_id = Identifier(roster[k])
            \/ \E f \in DOMAIN HrRecord(roster[k]) : IsRaised(HrRecord(roster[k])[f])

\* the roster rows left out of the output for want of an Identifier
MissingIdentifierRows(rows) == {k \in 1..Len(rows) : ~Truthy(Identifier(rows[k]))}

\* C28: the skipped count import_payroll_file returns for a dataset is the
\* number of roster rows excluded because their Identifier is missing: each
\* such row is counted, and nothing else is (no record of a failed batch).
C28_SkipAccounting ==
    (pc = "idle" /\ loader = "import_payroll" /\ result.kind = "returned") =>
        result.skipped = Cardinality(MissingIdentifierRows(roster))

-----------------------------------------------------------------------------
(* Properties of the batch loops (specification SpecLoad). *)

PayrollLoaders == {"import_payroll", "import_fy2025_payroll"}
\* the scripts whose load returns (succeeded, second counter)
CountingLoaders == {"import_payroll", "import_budgets"}

\* the run in the variables has ended, and not by the process being ended
EndedByItself == pc = "idle" /\ result.kind \in {"returned", "raised"}

\* ceil(n / BATCH_SIZE)
NumSlices(n) == (n + BATCH_SIZE - 1) \div BATCH_SIZE

RECURSIVE Concat(_)
Concat(ss) == IF ss = <<>> THEN <<>> ELSE Head(ss) \o Concat(Tail(ss))

RECURSIVE SumLen(_, _)
SumLen(ss, S) ==
    IF S = {} THEN 0
    ELSE LET s == CHOOSE x \in S : TRUE IN Len(ss[s]) + SumLen(ss, S \ {s})

\* the attempted slices with a store call that succeeded, and those without
SucceededSlices ==
    {s \in 1..Len(attempted) :
        \E c \in 1..Len(calls) : calls[c].at = (s - 1) * BATCH_SIZE /\ calls[c].ok}
FailedSlices == (1..Len(attempted)) \ SucceededSlices

\* how often a row is in a table
Count(table, r) == Cardinality({x \in 1..Len(table) : table[x] = r})
SameContent(a, b) ==
    \A r \in {a[x] : x \in 1..Len(a)} \cup {b[x] : x \in 1..Len(b)} :
        Count(a, r) = Count(b, r)

\* the payroll table after one uninterrupted run of a script on an empty store
UninterruptedRun(l, recs) ==
    IF l = "import_payroll" THEN Insert(<<>>, recs)
    ELSE Upsert(<<>>, recs, NaturalKeyFields)

\* C5: once a payroll script has loaded its records without a failure, a
\* second run of the same script on the same input leaves the number of
\* persisted rows unchanged.
C5_ReloadAddsNoRows ==
    (/\ Len(runs) = 2
     /\ runs[1].loader \in PayrollLoaders
     /\ runs[2].loader = runs[1].loader
     /\ runs[1].kind = "returned"
     /\ runs[1].clean)
    => runs[2].rows = runs[1].rows

\* C6: no two rows of the payroll table have the same
\* (temporary_id, record_nbr, fiscal_year).
C6_NaturalKeyUnique ==
    \A x, y \in 1..Len(store.payroll) :
        x # y => KeyOf(store.payroll[x], NaturalKeyFields) # KeyOf(store.payroll[y], NaturalKeyFields)

\* C7: a payroll run ended from outside after any number of committed slices,
\* followed by a run of the same script that completes without a failure,
\* leaves the payroll table with the content of one uninterrupted run.
C7_RerunAfterAbort ==
    (/\ Len(runs) = 2
     /\ runs[1].loader \in PayrollLoaders
     /\ runs[2].loader = runs[1].loader
     /\ runs[1].kind = "aborted"
     /\ runs[2].kind = "returned"
     /\ runs[2].clean)
    => SameContent(store.payroll, UninterruptedRun(runs[2].loader, records))

\* C8: a slice whose store calls all fail does not end the run: a run that
\* ends by itself has returned, and has attempted every slice.
C8_FailedSliceDoesNotStopRun ==
    EndedByItself =>
        /\ result.kind = "returned"
        /\ Len(attempted) = NumSlices(Len(records))

\* every store call that returned gave back all the rows of its slice
FullyReported ==
    \A c \in 1..Len(calls) :
        calls[c].ok => calls[c].data = Len(Slice(records, calls[c].at))

\* C9: load returns without raising, succeeded is the number of records of the
\* slices with a store call that succeeded, failed is the number of records of
\* the slices whose store calls all failed, and the two add up to N.  The
\* second number import_budgets returns counts unparsed rows, so the failed
\* count is compared for import_payroll only.
C9_LoadResult ==
    (EndedByItself /\ loader \in CountingLoaders /\ FullyReported) =>
        /\ result.kind = "returned"
        /\ result.inserted = SumLen(attempted, SucceededSlices)
        /\ loader = "import_payroll" =>
              /\ result.skipped = SumLen(attempted, FailedSlices)
              /\ result.inserted + result.skipped = Len(records)

\* C10: whatever the store calls do, ceil(N / BATCH_SIZE) slices are attempted,
\* each of at most BATCH_SIZE records, slice by slice in input order, and the
\* attempted slices concatenated are the records.
C10_BatchingComplete ==
    (EndedByItself /\ loader \in CountingLoaders) =>
        /\ Len(attempted) = NumSlices(Len(records))
        /\ \A s \in 1..Len(attempted) :
              /\ Len(attempted[s]) <= BATCH_SIZE
              /\ attempted[s] = Slice(records, (s - 1) * BATCH_SIZE)
        /\ Concat(attempted) = records

\* C13: no rollback across slices: every record of a slice committed in this
\* run is in the table, unchanged, in every later state of the run and at its
\* end, whatever happens to the later slices.
C13_NoRollback ==
    loader \in CountingLoaders =>
        \A s \in SucceededSlices :
            \A x \in 1..Len(attempted[s]) :
                \E y \in 1..Len(store[TableOf(loader)]) :
                    store[TableOf(loader)][y] = attempted[s][x]

\* C13 witness: a run has ended after a slice failed, an earlier slice of it
\* having been committed
C13_Witness ==
    /\ pc = "idle"
    /\ loader \in CountingLoaders
    /\ result.kind = "returned"
    /\ \E s \in SucceededSlices, f \in FailedSlices : s < f

\* what a store call adds to the succeeded count when an empty result counts
\* as the whole slice on every path
CountedAsClaimed(c) ==
    IF ~c.ok THEN 0
    ELSE IF c.data # 0 THEN c.data ELSE Len(Slice(records, c.at))

\* what a store call adds to the succeeded count in the scripts: an empty
\* result counts as the whole slice after an insert, and as nothing after the
\* upsert of import_budgets.py
Counted(c) ==
    IF ~c.ok THEN 0
    ELSE IF c.data # 0 THEN c.data
    ELSE IF c.op = "insert" THEN Len(Slice(records, c.at)) ELSE 0

RECURSIVE SumCountedAsClaimed(_)
SumCountedAsClaimed(cs) ==
    IF cs = <<>> THEN 0 ELSE CountedAsClaimed(Head(cs)) + SumCountedAsClaimed(Tail(cs))

RECURSIVE SumCounted(_)
SumCounted(cs) == IF cs = <<>> THEN 0 ELSE Counted(Head(cs)) + SumCounted(Tail(cs))

\* C14 as claimed: on every path, a store call that succeeds and reports no
\* rows adds the size of its slice to the succeeded count.
C14_MissingCountIsWholeSlice ==
    loader \in CountingLoaders => total_inserted = SumCountedAsClaimed(calls)

\* C14 amended: a store call that succeeds and reports no rows adds the size of
\* its slice to the succeeded count on the insert paths (import_payroll.py, and
\* the fallback insert of import_budgets.py), and adds nothing on the upsert
\* path of import_budgets.py.
C14_MissingCountByPath ==
    loader \in CountingLoaders => total_inserted = SumCounted(calls)

\* C14 witness: an insert has succeeded without reporting rows, and the
\* succeeded count holds the size of its slice
C14_Witness ==
    /\ loader \in CountingLoaders
    /\ \E c \in 1..Len(calls) :
          /\ calls[c].ok /\ calls[c].op = "insert" /\ calls[c].data = 0
          /\ total_inserted >= Len(Slice(records, calls[c].at))
          /\ Len(Slice(records, calls[c].at)) > 0

\* the fiscal years of the records the running script loads
LoadedYears == {records[r].fiscal_year : r \in 1..Len(records)}

\* C17: a step of a payroll script leaves every persisted payroll row of a
\* fiscal year it does not load in the table, as often as before and
\* unchanged, also when a loaded record has its temporary_id and record_nbr.
C17_OtherYearsUntouched ==
    [][\A x \in 1..Len(store.payroll) :
          store.payroll[x].fiscal_year \notin LoadedYears =>
              Count(store'.payroll, store.payroll[x]) = Count(store.payroll, store.payroll[x])]_vars

\* C17 witness: after both scripts have run, the table holds two rows with the
\* same temporary_id and record_nbr, one of each fiscal year
C17_Witness ==
    /\ Len(runs) = 2
    /\ \E x, y \in 1..Len(store.payroll) :
          /\ store.payroll[x].temporary_id = store.payroll[y].temporary_id
          /\ store.payroll[x].record_nbr = store.payroll[y].record_nbr
          /\ store.payroll[x].fiscal_year = FiscalYearText(2020)
          /\ store.payroll[y].fiscal_year = FISCAL_YEAR

\* the store calls of this run for the slice at an offset, in order
CallsAt(at) == SelectSeq(calls, LAMBDA c : c.at = at)
\* a primary call that returned, or a primary call that failed followed by
\* one plain insert
SingleFallback(cs) ==
    \/ Len(cs) = 1 /\ cs[1].ok
    \/ Len(cs) = 2 /\ ~cs[1].ok /\ cs[2].op = "insert"
\* the upsert of import_budgets.py failed and its handler is at the fallback
\* insert, or the process was ended there
FallbackPending(cs) ==
    /\ loader = "import_budgets"
    /\ pc = "fallback" \/ result.kind = "aborted"
    /\ Len(cs) = 1 /\ ~cs[1].ok /\ cs[1].op = "upsert"
\* the calls of slice s are through, or its fallback is pending
SliceFollowsRule(s, cs) == SingleFallback(cs) \/ (s = Len(attempted) /\ FallbackPending(cs))

\* C26: each slice gets at most two store calls: a primary call and, only if
\* it fails, exactly one plain insert of the same slice; a failed primary call
\* is always followed by the fallback, and nothing is retried after it.
C26_SingleFallback ==
    \A s \in 1..Len(attempted) : SliceFollowsRule(s, CallsAt((s - 1) * BATCH_SIZE))

\* import_budgets.py follows the rule, with the upsert as primary call
C26_BudgetsSingleFallback ==
    loader = "import_budgets" =>
        \A s \in 1..Len(attempted) :
            /\ SliceFollowsRule(s, CallsAt((s - 1) * BATCH_SIZE))
            /\ CallsAt((s - 1) * BATCH_SIZE)[1].op = "upsert"

\* C30: the inserted count import_budget_file returns is the sum of what the
\* slices whose upsert or fallback insert succeeded have added, for every
\* pattern of slice failures: rows committed by earlier slices are reported
\* when a later slice fails in both calls.
C30_ReportedCountCoversCommits ==
    (pc = "idle" /\ loader = "import_budgets" /\ result.kind = "returned") =>
        result.inserted = SumCounted(calls)

\* the count is complete whenever no slice failed in both calls
C30_ReportedCountWithoutDoubleFailure ==
    (pc = "idle" /\ loader = "import_budgets" /\ result.kind = "returned"
        /\ FailedSlices = {}) =>
        result.inserted = SumCounted(calls)

-----------------------------------------------------------------------------
(* Properties of main() (specification SpecMain). *)

\* C15: while import_payroll_file works on a workbook whose HR INFO sheet,
\* EARNINGS sheet or ACTIVE_ON_JUNE_30 column it did not resolve, it makes no
\* store call.
C15_UnresolvedStructureStopsDataset ==
    (/\ main.script = "import_payroll"
     /\ main.phase = "file"
     /\ \/ main.resolved.hr_sheet_name = None
        \/ main.resolved.earnings_sheet_name = None
        \/ main.resolved.active_col_name = None)
    => calls = <<>>

RECURSIVE SumInserted(_)
SumInserted(seen) == IF seen = <<>> THEN 0 ELSE Head(seen).inserted + SumInserted(Tail(seen))
RECURSIVE SumSkipped(_)
SumSkipped(seen) == IF seen = <<>> THEN 0 ELSE Head(seen).skipped + SumSkipped(Tail(seen))

\* what the call for file f returned when the file could not be worked on: a
\* file that does not open or a workbook without one of its sheets gives 0, 0;
\* a CSV file whose reader raised gives 0 and the rows skipped before that
FailedFile(f) ==
    /\ f.exists
    /\ \/ ~f.opens
       \/ f.read_error
       \/ /\ main.script = "import_payroll"
          /\ \/ ResolveWorkbook(f).hr_sheet_name = None
             \/ ResolveWorkbook(f).earnings_sheet_name = None
FailedFileResult(f) ==
    Seen("returned", 0, IF f.opens /\ f.read_error THEN BudgetSkipped(f.rows) ELSE 0)

\* main() has been ended from outside, at a store call
MainEnded == result.kind = "aborted"

\* main() has a next step: the call for the file of the year it is at, or a
\* step of its loop or of the loader it called
MainCanStep ==
    \/ AtNextFile(main.script) /\ ThisFile.exists /\ pc = "idle" /\ Len(runs) < MaxRuns
    \/ ENABLED (\/ MainSkipMissing \/ MainAddCounts \/ MainSummary
                \/ PayrollInsertOk \/ PayrollInsertFail \/ PayrollReturn
                \/ BudgetUpsertOk \/ BudgetUpsertFail \/ BudgetFallbackInsertOk
                \/ BudgetBothFail \/ BudgetReturn)

\* C16: no file stops main().  Every year main() is through with was skipped
\* exactly when its file is not there; a file that could not be worked on
\* returned its counts like any other (0 rows in, and the rows it had skipped);
\* the totals are the sums of the counts of the files so far; unless the
\* process was ended from outside, main() always has a next step until its
\* summary, which it prints after all the configured years.
C16_DatasetIsolation ==
    /\ main.script # "none" =>
          /\ Len(files) = Len(YearsOf(main.script))
          /\ \A k \in 1..Len(main.seen) :
                /\ (main.seen[k].kind = "missing") <=> ~files[k].exists
                /\ FailedFile(files[k]) => main.seen[k] = FailedFileResult(files[k])
          /\ main.total_inserted = SumInserted(main.seen)
          /\ main.total_skipped = SumSkipped(main.seen)
          /\ main.phase # "done" /\ ~MainEnded => main.year = Len(main.seen) + 1
    /\ main.script # "none" /\ main.phase # "done" /\ ~MainEnded => MainCanStep
    /\ main.phase = "done" => Len(main.seen) = Len(files)

\* C16 witness: main() of import_budgets.py is through its seven years; the
\* reader of one file raised after a row that was skipped, the file of a later
\* year is not there, and the file of a year after that brought records in
C16_Witness ==
    /\ main.script = "import_budgets"
    /\ main.phase = "done"
    /\ Len(main.seen) = 7
    /\ \E j, k, m \in 1..Len(files) :
          /\ j < k /\ k < m
          /\ files[j].opens /\ files[j].read_error
          /\ main.seen[j] = Seen("returned", 0, 1)
          /\ main.seen[k].kind = "missing"
          /\ main.seen[m].kind = "returned"
          /\ main.seen[m].inserted > 0
          /\ main.total_inserted = main.seen[m].inserted
          /\ main.total_skipped = 1 + main.seen[m].skipped

-----------------------------------------------------------------------------
(* Properties of the field normalizers (specification SpecNorm). *)

\* C18: no field normalizer raises, whatever the raw cell value.
C18_NormalizersNeverRaise == normalized.fn # "none" => normalized.out # Raised

\* the null-rule inputs: the empty string, whitespace only, the dash placeholder
IsBlankText(value) == value.tag = "str" /\ Strip(value.s) = <<>>
IsDashText(value) == value.tag = "str" /\ Strip(value.s) = <<"-">>

\* the normalizers whose documented default is 0.0: the wage variants and the
\* decimal amounts of import_budgets.py
ZeroDefaultNormalizers == {"wage", "fy2025_wage", "parse_decimal"}
NullRuleResult(fn) == IF fn \in ZeroDefaultNormalizers THEN Flt(0) ELSE None

\* the wage variants: the wage fields of the two payroll scripts
WageVariants == {"wage", "fy2025_wage"}

\* C19: every normalizer (integer, decimal, text, hire-date text), of the
\* payroll scripts and of import_budgets.py, maps the empty string, a
\* whitespace-only string and the dash placeholder (bare or surrounded by
\* whitespace) to null; the wage variant maps them to 0.0.
C19_NullRuleEverywhere ==
    normalized.fn # "none" /\ (IsBlankText(raw_value) \/ IsDashText(raw_value))
        => normalized.out = (IF normalized.fn \in WageVariants THEN Flt(0) ELSE None)

\* C19, what the normalizers do: the empty string and a whitespace-only string
\* yield null in every normalizer, 0.0 in the wage variants and in
\* parse_decimal of import_budgets.py; the dash placeholder does the same in
\* every normalizer except normalize_text of import_budgets.py, which
\* returns the trimmed dash, and last_hire_safe of import_fy2025_payroll.py,
\* which gives null for the bare dash and the trimmed dash for a dash
\* surrounded by whitespace.
C19_NullRuleExceptBudgetTextDash ==
    /\ normalized.fn # "none" /\ IsBlankText(raw_value)
        => normalized.out = NullRuleResult(normalized.fn)
    /\ normalized.fn \notin {"none", "normalize_text", "last_hire_safe"} /\ IsDashText(raw_value)
        => normalized.out = NullRuleResult(normalized.fn)
    /\ normalized.fn = "normalize_text" /\ IsDashText(raw_value)
        => normalized.out = Str(<<"-">>)
    /\ normalized.fn = "last_hire_safe" /\ IsDashText(raw_value)
        => normalized.out = (IF raw_value = Str(<<"-">>) THEN None ELSE Str(<<"-">>))

\* C19: normalize_text has returned the dash of a dash surrounded by whitespace
C19_Witness ==
    /\ raw_value = Str(<<" ", "-", " ">>)
    /\ normalized.fn = "normalize_text"
    /\ normalized.out = Str(<<"-">>)

\* texts with a thousands separator, and the amount each one writes
IsSeparatedText(value) == value.tag = "str" /\ Strip(value.s) = <<"1", ",", "2", "3", "4", ".", "5", "0">>
\* null, blank, dash and text that is no number
IsNoAmount(value) ==
    \/ value = None
    \/ IsBlankText(value)
    \/ IsDashText(value)
    \/ value \in {Str(<<"a", "b", "c">>), Str(<<" ", "x", " ">>)}

\* C20: in every loader that normalizes wages, the wage/decimal normalizer
\* strips thousands separators before parsing (' 1,234.50 ' gives 1234.50),
\* and null, blank, dash and unparsable text give 0.0.
C20_WageStripsThousandsSeparators ==
    normalized.fn \in ZeroDefaultNormalizers
        => /\ IsSeparatedText(raw_value) => normalized.out = Flt(123450)
           /\ IsNoAmount(raw_value) => normalized.out = Flt(0)

\* the integer the contract asks for: the truncation of a numeric value or of
\* a numeric-looking text, null for null, blank and text that is no number
IntegerExpected(value) ==
    CASE value \in {Int_(12), Flt(1250), Str(<<"1", "2">>), Str(<<"1", "2", ".", "0">>)} -> Int_(12)
      [] value \in {Int_(0), Flt(0), Str(<<"0">>)} -> Int_(0)
      [] value \in {Int_(-3), Flt(-375)} -> Int_(-3)
      [] value = Str(<<"-", "5">>) -> Int_(-5)
      [] value = Str(<<"3", ".", "7", "5">>) -> Int_(3)
      [] OTHER -> None
\* the raw values the integer rule speaks of
IsIntegerCase(value) ==
    \/ value = None
    \/ IsBlankText(value)
    \/ IsNoAmount(value)
    \/ IntegerExpected(value) # None

\* C21: both parse_integer implementations give null for null or blank, the
\* truncation for a numeric value and for numeric-looking text (such as
\* '12.0'), and null for non-numeric text.
C21_IntegerNormalization ==
    normalized.fn \in {"parse_integer", "budgets_parse_integer"} /\ IsIntegerCase(raw_value)
        => normalized.out = IntegerExpected(raw_value)

\* the rule holds for parse_integer of import_payroll.py
C21_PayrollIntegerNormalization ==
    normalized.fn = "parse_integer" /\ IsIntegerCase(raw_value)
        => normalized.out = IntegerExpected(raw_value)

\* C24: a LAST_HIRE_DATE text that is neither blank nor the dash is kept as
\* its trimmed text, whether or not it parses as a number; null, blank and
\* dash give null.  This holds for parse_last_hire_date and last_hire_safe.
C24_HireDateTextPreserved ==
    normalized.fn \in {"parse_last_hire_date", "last_hire_safe"} =>
        /\ raw_value = None \/ IsBlankText(raw_value) \/ IsDashText(raw_value)
              => normalized.out = None
        /\ raw_value.tag = "str" /\ ~IsBlankText(raw_value) /\ ~IsDashText(raw_value)
              => normalized.out = Str(Strip(raw_value.s))

\* text that is no number is kept trimmed by parse_last_hire_date
C24_NonNumericTextPreserved ==
    normalized.fn = "parse_last_hire_date" /\ raw_value.tag = "str"
        /\ ~IsBlankText(raw_value) /\ ~IsDashText(raw_value)
        /\ IsRaised(ParseFloatText(raw_value.s))
        => normalized.out = Str(Strip(raw_value.s))

\* C25: each normalizer, applied to the value it returned, returns that value
\* unchanged: f(f(v)) = f(v) for every raw value v (a number is unchanged
\* whether it comes back as an int or as a float).
C25_NormalizerIdempotence ==
    normalized.times = 2 => AsNumber(normalized.out) = AsNumber(raw_value)

\* the normalizers of import_payroll.py are idempotent
C25_PayrollNormalizerIdempotence ==
    normalized.times = 2
        /\ normalized.fn \in {"parse_integer", "parse_float", "parse_text", "parse_last_hire_date", "wage"}
        => AsNumber(normalized.out) = AsNumber(raw_value)

-----------------------------------------------------------------------------
(* Properties of sheet resolution (specification SpecResolve). *)

\* the positions of the sheet names that contain the pattern, case ignored
MatchingSheets(sheetnames, pattern) ==
    {k \in 1..Len(sheetnames) : Contains(LowerText(pattern), LowerText(sheetnames[k]))}
\* the first of them in workbook order, or the not-found signal
FirstMatchingSheet(sheetnames, pattern) ==
    IF MatchingSheets(sheetnames, pattern) = {} THEN None
    ELSE Str(sheetnames[MinOf(MatchingSheets(sheetnames, pattern))])

\* C23: every script that resolves sheets returns the first sheet name, in
\* workbook order, that contains the pattern compared case-insensitively, and
\* the not-found signal exactly when no sheet name contains it.
C23_SheetResolution ==
    main.phase = "resolved" =>
        /\ main.resolved.hr_sheet_name = FirstMatchingSheet(files[1].sheetnames, HR_INFO)
        /\ main.resolved.earnings_sheet_name = FirstMatchingSheet(files[1].sheetnames, EARNINGS)

\* the rule holds for the three scripts that use find_sheet_by_pattern
C23_SheetResolutionButFy2025 ==
    main.phase = "resolved" /\ main.script # "import_fy2025_payroll" =>
        /\ main.resolved.hr_sheet_name = FirstMatchingSheet(files[1].sheetnames, HR_INFO)
        /\ main.resolved.earnings_sheet_name = FirstMatchingSheet(files[1].sheetnames, EARNINGS)

-----------------------------------------------------------------------------
(* Properties of the inspection script (specification SpecAudit). *)

\* both cells of the pair are there
HasPair(row) == row.TEMPORARY_ID # None /\ row.RECORD_NBR # None
\* two record numbers are the same value: two numbers that are equal (a NaN
\* is equal to none), or two texts that are equal; a number and a text are not
IsNumber(x) == x.tag \in {"int", "float", "inf", "nan", "bool"}
SameRecordNbr(x, y) ==
    IF IsNumber(x) /\ IsNumber(y)
    THEN x.tag # "nan" /\ y.tag # "nan" /\ AsNumber(x) = AsNumber(y)
    ELSE ~IsNumber(x) /\ ~IsNumber(y) /\ StrOf(x) = StrOf(y)
\* two rows have equal (temporary_id, record_nbr) tuples: the same trimmed
\* Identifier and the same record number
SameTuple(a, b) ==
    /\ Strip(StrOf(a.TEMPORARY_ID)) = Strip(StrOf(b.TEMPORARY_ID))
    /\ SameRecordNbr(a.RECORD_NBR, b.RECORD_NBR)
DuplicatedTuples(rows) ==
    {p \in (1..Len(rows)) \X (1..Len(rows)) :
        p[1] < p[2] /\ HasPair(rows[p[1]]) /\ HasPair(rows[p[2]]) /\ SameTuple(rows[p[1]], rows[p[2]])}

\* C29: the inspection script reports (temporary_id, record_nbr) as unique
\* exactly when no two HR rows have equal tuples; rows with a null
\* temporary_id or a null record_nbr do not change the verdict, and the check
\* writes nothing to the store.
C29_AuditUniqueness ==
    report.done =>
        /\ report.unique <=> DuplicatedTuples(roster) = {}
        /\ store = [payroll |-> <<>>, budgets |-> <<>>]
        /\ calls = <<>>

\* C29 witness: rows without one of the two cells, which would pair up if they
\* were counted, beside rows whose tuples are all different
C29_Witness ==
    /\ report.done
    /\ report.unique
    /\ \E j, k \in 1..Len(roster) :
          j < k /\ ~HasPair(roster[j]) /\ roster[j] = roster[k]
    /\ \E j \in 1..Len(roster) : HasPair(roster[j])

\* the script reports duplicates when two rows have the same tuple written
\* differently
C29_WitnessDuplicates ==
    /\ report.done
    /\ ~report.unique
    /\ \E j, k \in 1..Len(roster) : j < k /\ roster[j] # roster[k]

====
